---- MODULE Spec2Model ----
(***************************************************************************)
(* Diagram editor of DigitalWhiteboard: the component state of             *)
(* DiagramEditor (shapes, connections, drawings, selection, tool modes,    *)
(* the main undo/redo log and the drawing log) and its event handlers.     *)
(*                                                                         *)
(* Conventions.  An id string `shape-<t>`, `conn-<t>` or `drawing-<t>` is  *)
(* modelled by the clock value t it was built from; the three kinds live   *)
(* in different fields and are never compared with each other.  null is   *)
(* NULL.  A history entry is the record of what its undo/redo closures     *)
(* captured; UndoShapes .. RedoIsPublic are the bodies of those closures.  *)
(* A click on a Toolbar button runs the button's handler and then, since   *)
(* the Toolbar is rendered inside the canvas container and does not stop   *)
(* propagation, the container's onClick of the same render.                *)
(***************************************************************************)
EXTENDS Integers, Sequences, FiniteSets, TLC

VARIABLES
    shapes, connections, drawings, backgroundColor,
    selectedShape, selectedConnection,
    isConnecting, isDrawing, isEraserActive, connectionStart,
    drawingHistory, drawingHistoryIndex,
    history, historyIndex,
    isPublic, shareUrl, currentDiagramId,
    erasedPaths,
    now,
    user, store, inflight, uuids, file, notice,
    currentPath, isDrawingActive,
    lastOp, phase, snap

modelVars == <<shapes, connections, drawings>>
selectionVars == <<selectedShape, selectedConnection>>
modeVars == <<isConnecting, isDrawing, isEraserActive, connectionStart>>
drawLogVars == <<drawingHistory, drawingHistoryIndex>>
mainLogVars == <<history, historyIndex>>
identityVars == <<isPublic, shareUrl, currentDiagramId>>
progVars == <<modelVars, backgroundColor, selectionVars, modeVars, drawLogVars,
              mainLogVars, identityVars, erasedPaths, now>>
\* the signed-in user, the rows of the diagrams table, the requests to the store
\* that have not been answered, the number of uuids generated, the content of
\* the last downloaded file and the last notice shown
persistVars == <<user, store, inflight, uuids, file, notice>>
\* DrawingCanvas: the points captured since the pointer went down, and whether a
\* pointer gesture is going on
canvasVars == <<currentPath, isDrawingActive>>
vars == <<progVars, persistVars, canvasVars, lastOp, phase, snap>>

(* ------------------------------ bounds --------------------------------- *)
MaxShapes == 2
MaxConnections == 2
MaxDrawings == 2
MaxHistory == 3
MaxDrawingHistory == 3
MaxClock == 2

(* ------------------------------ values --------------------------------- *)
NULL == -1

AddTypes == {"rectangle"}
AddPositions == {[x |-> 300, y |-> 100]}
DragPositions == {[x |-> 400, y |-> 200]}
EditTexts == {[label |-> "edited", n |-> 0]}
PickColors == {"#FF0000"}
PickLineStyles == {"solid", "dashed"}
PickArrowStyles == {"end", "none"}
ResizeSizes == {[width |-> 70, height |-> 70]}
BorderWidths == {3}
StrokePoints == {<<[x |-> 10, y |-> 10, type |-> "start"], [x |-> 10, y |-> 10, type |-> "end"]>>}
StaleIds == {99}

Capitalize(type) ==
    CASE type = "rectangle" -> "Rectangle"
      [] type = "circle" -> "Circle"
      [] type = "diamond" -> "Diamond"
      [] type = "square" -> "Square"
      [] type = "line" -> "Line"
      [] OTHER -> "Text"

(* ------------------------- array helpers ------------------------------- *)
IdsOf(s) == {s[i].id : i \in 1..Len(s)}

Has(s, id) == \E i \in 1..Len(s) : s[i].id = id

\* Array.prototype.find on id: the first element with that id
Find(s, id) ==
    s[CHOOSE i \in 1..Len(s) : s[i].id = id /\ \A j \in 1..(i - 1) : s[j].id # id]

WithoutId(s, id) ==
    LET keep(e) == e.id # id IN SelectSeq(s, keep)

Incident(conns, id) ==
    LET hit(c) == c.from = id \/ c.to = id IN SelectSeq(conns, hit)

NotIncident(conns, id) ==
    LET keep(c) == c.from # id /\ c.to # id IN SelectSeq(conns, keep)

\* the clock values an event may read: the clock of the previous event or a later one
ClockReads == {t \in {now, now + 1} : t <= MaxClock}

(* --------------------------- main history ------------------------------ *)
CanRecord == historyIndex + 1 < MaxHistory

AddToHistoryKeepRedo(action) == Append(history, action)

AddToHistory(action) == Append(SubSeq(history, 1, historyIndex + 1), action)

(* ------------------- closures of the history entries ------------------- *)
\* what entry e's undo closure does to each piece of state it sets
UndoShapes(e, s) ==
    CASE e.type = "ADD_SHAPE" -> WithoutId(s, e.data.id)
      [] e.type = "UPDATE_SHAPE_COLOR" ->
            [i \in 1..Len(s) |->
                IF s[i].id = e.data.id THEN [s[i] EXCEPT !.borderColor = e.data.oldColor]
                ELSE s[i]]
      [] e.type = "DELETE_SHAPE" -> Append(s, e.data.shape)
      [] e.type = "CLEAR_SCREEN" -> e.data.shapes
      [] OTHER -> s

UndoConnectionsDropCascade(e, c) ==
    CASE e.type = "ADD_CONNECTION" -> WithoutId(c, e.data.id)
      [] e.type = "UPDATE_CONNECTION_STYLE" ->
            [i \in 1..Len(c) |->
                IF c[i].id = e.data.id
                THEN [c[i] EXCEPT !.lineStyle = e.data.oldStyles.lineStyle,
                                  !.arrowStyle = e.data.oldStyles.arrowStyle]
                ELSE c[i]]
      [] e.type = "DELETE_CONNECTION" -> Append(c, e.data)
      [] e.type = "CLEAR_SCREEN" -> e.data.connections
      [] OTHER -> c

UndoConnections(e, c) ==
    CASE e.type = "ADD_CONNECTION" -> WithoutId(c, e.data.id)
      [] e.type = "UPDATE_CONNECTION_STYLE" ->
            [i \in 1..Len(c) |->
                IF c[i].id = e.data.id
                THEN [c[i] EXCEPT !.lineStyle = e.data.oldStyles.lineStyle,
                                  !.arrowStyle = e.data.oldStyles.arrowStyle]
                ELSE c[i]]
      [] e.type = "DELETE_SHAPE" -> c \o e.data.connections
      [] e.type = "DELETE_CONNECTION" -> Append(c, e.data)
      [] e.type = "CLEAR_SCREEN" -> e.data.connections
      [] OTHER -> c

UndoDrawings(e, d) == IF e.type = "CLEAR_SCREEN" THEN e.data.drawings ELSE d

UndoCurrentDiagramIdKeeps(e, v) == v

UndoCurrentDiagramId(e, v) == IF e.type = "CLEAR_SCREEN" THEN e.data.currentDiagramId ELSE v

UndoShareUrl(e, v) == IF e.type = "CLEAR_SCREEN" THEN e.data.shareUrl ELSE v

UndoIsPublic(e, v) == IF e.type = "CLEAR_SCREEN" THEN e.data.isPublic ELSE v

\* what entry e's redo closure does
RedoShapesPrepend(e, s) ==
    CASE e.type = "ADD_SHAPE" -> <<e.data>> \o s
      [] e.type = "UPDATE_SHAPE_COLOR" ->
            [i \in 1..Len(s) |->
                IF s[i].id = e.data.id THEN [s[i] EXCEPT !.borderColor = e.data.newColor]
                ELSE s[i]]
      [] e.type = "DELETE_SHAPE" -> WithoutId(s, e.data.shape.id)
      [] e.type = "CLEAR_SCREEN" -> <<>>
      [] OTHER -> s

RedoShapes(e, s) ==
    CASE e.type = "ADD_SHAPE" -> Append(s, e.data)
      [] e.type = "UPDATE_SHAPE_COLOR" ->
            [i \in 1..Len(s) |->
                IF s[i].id = e.data.id THEN [s[i] EXCEPT !.borderColor = e.data.newColor]
                ELSE s[i]]
      [] e.type = "DELETE_SHAPE" -> WithoutId(s, e.data.shape.id)
      [] e.type = "CLEAR_SCREEN" -> <<>>
      [] OTHER -> s

RedoConnections(e, c) ==
    CASE e.type = "ADD_CONNECTION" -> Append(c, e.data)
      [] e.type = "UPDATE_CONNECTION_STYLE" ->
            [i \in 1..Len(c) |->
                IF c[i].id = e.data.id
                THEN [c[i] EXCEPT !.lineStyle = e.data.newStyles.lineStyle,
                                  !.arrowStyle = e.data.newStyles.arrowStyle]
                ELSE c[i]]
      [] e.type = "DELETE_SHAPE" -> NotIncident(c, e.data.shape.id)
      [] e.type = "DELETE_CONNECTION" -> WithoutId(c, e.data.id)
      [] e.type = "CLEAR_SCREEN" -> <<>>
      [] OTHER -> c

RedoDrawings(e, d) == IF e.type = "CLEAR_SCREEN" THEN <<>> ELSE d

RedoCurrentDiagramId(e, v) == IF e.type = "CLEAR_SCREEN" THEN NULL ELSE v

RedoShareUrl(e, v) == IF e.type = "CLEAR_SCREEN" THEN "" ELSE v

RedoIsPublic(e, v) == IF e.type = "CLEAR_SCREEN" THEN FALSE ELSE v

(* --------------------------- constructors ------------------------------ *)
NewShape(type, position, t, n) ==
    LET base == [id |-> t,
                 type |-> type,
                 position |-> position,
                 text |-> IF type = "text"
                          THEN [label |-> "Double click to edit", n |-> 0]
                          ELSE [label |-> Capitalize(type), n |-> n + 1],
                 borderColor |-> "#666",
                 borderWidth |-> 2,
                 width |-> IF type = "text" THEN 200 ELSE IF type = "line" THEN 0 ELSE 128,
                 height |-> IF type = "text" THEN 100
                            ELSE IF type = "line" THEN 0
                            ELSE IF type = "rectangle" THEN 80 ELSE 128]
    IN  IF type = "line"
        THEN base @@ [endPoint |-> [x |-> position.x + 100, y |-> position.y]]
        ELSE base

NewConnectionReversed(start, id, t) ==
    [id |-> t, from |-> id, to |-> start, points |-> <<>>,
     lineStyle |-> "solid", arrowStyle |-> "end"]

NewConnection(start, id, t) ==
    [id |-> t, from |-> start, to |-> id, points |-> <<>>,
     lineStyle |-> "solid", arrowStyle |-> "end"]

(* ------------------------- record of the last event -------------------- *)
\* name of the event, the id it named (for undo and redo the index of the entry
\* applied), the pending first shape it found, and whether its record discarded
\* redo-able entries
Op(name, id) == [name |-> name, id |-> id, start |-> NULL, cut |-> FALSE]

CancelOp(name) == [name |-> name, id |-> NULL, start |-> connectionStart, cut |-> FALSE]

RecOp(name, id) ==
    [name |-> name, id |-> id, start |-> NULL, cut |-> historyIndex + 1 < Len(history)]

(* ------------------------------ Init ----------------------------------- *)
NoData == [shapes |-> <<>>, connections |-> <<>>, drawings |-> <<>>]

\* useState initial values of DiagramEditor, for the initialData prop d, with the
\* rows the store holds and the requests the mount effect has sent
InitMounted(d, rows, requests) ==
    /\ shapes = d.shapes
    /\ connections = d.connections
    /\ drawings = d.drawings
    /\ backgroundColor = "#FFFFFF"
    /\ selectedShape = NULL
    /\ selectedConnection = NULL
    /\ isConnecting = FALSE
    /\ isDrawing = FALSE
    /\ connectionStart = NULL
    /\ isEraserActive = FALSE
    /\ drawingHistory = << <<>> >>
    /\ drawingHistoryIndex = 0
    /\ history = <<>>
    /\ historyIndex = -1
    /\ isPublic = FALSE
    /\ shareUrl = ""
    /\ currentDiagramId = NULL
    /\ erasedPaths = <<>>
    /\ now = 0
    /\ user = NULL
    /\ store = rows
    /\ inflight = requests
    /\ uuids = 0
    /\ file = [kind |-> "none"]
    /\ notice = ""
    /\ currentPath = <<>>
    /\ isDrawingActive = FALSE
    /\ lastOp = [name |-> "init", id |-> NULL, start |-> NULL, cut |-> FALSE]
    /\ snap = <<>>

InitWith(d) == InitMounted(d, <<>>, <<>>)

Init == InitWith(NoData) /\ phase = "free"

(* ----------------- the canvas container's onClick ---------------------- *)
\* `connecting` and `start` are the values queued for isConnecting and
\* connectionStart by a handler that ran earlier in the same click (a Toolbar
\* button); the test reads isConnecting of the render the click happened in.
ContainerOnClickKeepsStart(connecting, start) ==
    /\ selectedShape' = NULL
    /\ selectedConnection' = NULL
    /\ isConnecting' = IF isConnecting THEN FALSE ELSE connecting
    /\ connectionStart' = start

ContainerOnClick(connecting, start) ==
    /\ selectedShape' = NULL
    /\ selectedConnection' = NULL
    /\ isConnecting' = IF isConnecting THEN FALSE ELSE connecting
    /\ connectionStart' = IF isConnecting THEN NULL ELSE start

CanvasClick ==
    /\ ContainerOnClick(isConnecting, connectionStart)
    /\ lastOp' = CancelOp("CanvasClick")
    /\ UNCHANGED <<modelVars, backgroundColor, isDrawing, isEraserActive, drawLogVars,
                   mainLogVars, identityVars, erasedPaths, now>>

(* --------------------------- toolbar buttons --------------------------- *)
ToolbarAddShape(type, position, t) ==
    LET newShape == NewShape(type, position, t, Len(shapes)) IN
    /\ Len(shapes) < MaxShapes
    /\ CanRecord
    /\ shapes' = Append(shapes, newShape)
    /\ history' = AddToHistory([type |-> "ADD_SHAPE", data |-> newShape])
    /\ historyIndex' = historyIndex + 1
    /\ now' = t
    /\ ContainerOnClick(isConnecting, connectionStart)
    /\ lastOp' = [RecOp("AddShape", t) EXCEPT !.start = connectionStart]
    /\ UNCHANGED <<connections, drawings, backgroundColor, isDrawing, isEraserActive,
                   drawLogVars, identityVars, erasedPaths>>

ToolbarStartConnection ==
    /\ ContainerOnClick(~isConnecting, connectionStart)
    /\ isDrawing' = FALSE
    /\ isEraserActive' = FALSE
    /\ lastOp' = CancelOp("StartConnection")
    /\ UNCHANGED <<modelVars, backgroundColor, drawLogVars, mainLogVars, identityVars,
                   erasedPaths, now>>

ToolbarStartDrawing ==
    /\ ContainerOnClick(FALSE, connectionStart)
    /\ isDrawing' = ~isDrawing
    /\ isEraserActive' = FALSE
    /\ lastOp' = CancelOp("StartDrawing")
    /\ UNCHANGED <<modelVars, backgroundColor, drawLogVars, mainLogVars, identityVars,
                   erasedPaths, now>>

ToolbarToggleEraser ==
    /\ ContainerOnClick(isConnecting, connectionStart)
    /\ isEraserActive' = ~isEraserActive
    /\ lastOp' = CancelOp("ToggleEraser")
    /\ UNCHANGED <<modelVars, backgroundColor, isDrawing, drawLogVars, mainLogVars,
                   identityVars, erasedPaths, now>>

ToolbarDelete ==
    /\ ContainerOnClick(isConnecting, connectionStart)
    /\ IF selectedShape # NULL /\ Has(shapes, selectedShape) THEN
            LET shape == Find(shapes, selectedShape) IN
            /\ CanRecord
            /\ shapes' = WithoutId(shapes, selectedShape)
            /\ connections' = NotIncident(connections, selectedShape)
            /\ history' = AddToHistory(
                    [type |-> "DELETE_SHAPE",
                     data |-> [shape |-> shape,
                               connections |-> Incident(connections, selectedShape)]])
            /\ historyIndex' = historyIndex + 1
            /\ lastOp' = [RecOp("Delete", selectedShape) EXCEPT !.start = connectionStart]
       ELSE IF selectedShape = NULL /\ selectedConnection # NULL
               /\ Has(connections, selectedConnection) THEN
            LET connection == Find(connections, selectedConnection) IN
            /\ CanRecord
            /\ connections' = WithoutId(connections, selectedConnection)
            /\ history' = AddToHistory([type |-> "DELETE_CONNECTION", data |-> connection])
            /\ historyIndex' = historyIndex + 1
            /\ lastOp' = [RecOp("Delete", selectedConnection) EXCEPT !.start = connectionStart]
            /\ UNCHANGED shapes
       ELSE /\ lastOp' = CancelOp("Delete")
            /\ UNCHANGED <<shapes, connections, mainLogVars>>
    /\ UNCHANGED <<drawings, backgroundColor, isDrawing, isEraserActive, drawLogVars,
                   identityVars, erasedPaths, now>>

ToolbarClearScreenResetsDrawLog ==
    LET oldState == [shapes |-> shapes, connections |-> connections, drawings |-> drawings,
                     currentDiagramId |-> currentDiagramId, shareUrl |-> shareUrl,
                     isPublic |-> isPublic] IN
    /\ CanRecord
    /\ shapes' = <<>>
    /\ connections' = <<>>
    /\ drawings' = <<>>
    /\ currentDiagramId' = NULL
    /\ shareUrl' = ""
    /\ isPublic' = FALSE
    /\ history' = AddToHistory([type |-> "CLEAR_SCREEN", data |-> oldState])
    /\ historyIndex' = historyIndex + 1
    /\ drawingHistory' = << <<>> >>
    /\ drawingHistoryIndex' = 0
    /\ ContainerOnClick(isConnecting, connectionStart)
    /\ lastOp' = [RecOp("ClearScreen", NULL) EXCEPT !.start = connectionStart]
    /\ UNCHANGED <<backgroundColor, isDrawing, isEraserActive, erasedPaths, now>>

ToolbarClearScreen ==
    LET oldState == [shapes |-> shapes, connections |-> connections, drawings |-> drawings,
                     currentDiagramId |-> currentDiagramId, shareUrl |-> shareUrl,
                     isPublic |-> isPublic] IN
    /\ CanRecord
    /\ shapes' = <<>>
    /\ connections' = <<>>
    /\ drawings' = <<>>
    /\ currentDiagramId' = NULL
    /\ shareUrl' = ""
    /\ isPublic' = FALSE
    /\ history' = AddToHistory([type |-> "CLEAR_SCREEN", data |-> oldState])
    /\ historyIndex' = historyIndex + 1
    /\ ContainerOnClick(isConnecting, connectionStart)
    /\ lastOp' = [RecOp("ClearScreen", NULL) EXCEPT !.start = connectionStart]
    /\ UNCHANGED <<backgroundColor, isDrawing, isEraserActive, drawLogVars, erasedPaths, now>>

(* ---------------------- shape and connection events -------------------- *)
\* a connection is drawn (and can be clicked) only when both end shapes exist
Rendered(c) == Has(shapes, c.from) /\ Has(shapes, c.to)

\* shape.width || (shape.type === 'text' ? 200 : 128): a width of 0 is falsy
WidthOrDefault(shape) ==
    IF shape.width # 0 THEN shape.width ELSE IF shape.type = "text" THEN 200 ELSE 128

HeightOrDefault(shape) ==
    IF shape.height # 0 THEN shape.height ELSE IF shape.type = "text" THEN 100 ELSE 80

getCenterPoint(shape) ==
    [x |-> shape.position.x + WidthOrDefault(shape) \div 2,
     y |-> shape.position.y + HeightOrDefault(shape) \div 2]

getStrokeDashArray(style) ==
    CASE style = "dashed" -> "8,8"
      [] style = "dotted" -> "2,4"
      [] OTHER -> "none"

\* the render of one <Connection>: nothing when an end shape is not found, else
\* the path between the two shapes, given here by the two centre points that
\* getPath starts from
ConnectionRenderToOnly(connection, shapeList) ==
    IF ~Has(shapeList, connection.to) THEN [kind |-> "null"]
    ELSE IF ~Has(shapeList, connection.from) THEN [kind |-> "TypeError"]
    ELSE [kind |-> "svg",
          from |-> getCenterPoint(Find(shapeList, connection.from)),
          to |-> getCenterPoint(Find(shapeList, connection.to)),
          dash |-> getStrokeDashArray(connection.lineStyle)]

ConnectionRender(connection, shapeList) ==
    IF ~Has(shapeList, connection.from) \/ ~Has(shapeList, connection.to)
    THEN [kind |-> "null"]
    ELSE [kind |-> "svg",
          from |-> getCenterPoint(Find(shapeList, connection.from)),
          to |-> getCenterPoint(Find(shapeList, connection.to)),
          dash |-> getStrokeDashArray(connection.lineStyle)]

\* the test of handleSelect's second branch: a click on another shape than the pending one
AnyShapeCompletes(start, id) == TRUE

CompletesConnection(start, id) == start # id

SelectShape(id) ==
    /\ Has(shapes, id)
    /\ IF isConnecting THEN
            IF connectionStart = NULL THEN
                /\ connectionStart' = id
                /\ lastOp' = Op("SelectShape", id)
                /\ UNCHANGED <<connections, mainLogVars, isConnecting, now>>
            ELSE IF CompletesConnection(connectionStart, id) THEN
                \E t \in ClockReads :
                    LET newConnection == NewConnection(connectionStart, id, t) IN
                    /\ Len(connections) < MaxConnections
                    /\ CanRecord
                    /\ connections' = Append(connections, newConnection)
                    /\ history' = AddToHistory([type |-> "ADD_CONNECTION",
                                                data |-> newConnection])
                    /\ historyIndex' = historyIndex + 1
                    /\ connectionStart' = NULL
                    /\ isConnecting' = FALSE
                    /\ now' = t
                    /\ lastOp' = [RecOp("SelectShape", id) EXCEPT !.start = connectionStart]
            ELSE
                /\ lastOp' = [Op("SelectShape", id) EXCEPT !.start = connectionStart]
                /\ UNCHANGED <<connections, mainLogVars, isConnecting, connectionStart, now>>
         ELSE
            /\ lastOp' = Op("SelectShape", id)
            /\ UNCHANGED <<connections, mainLogVars, isConnecting, connectionStart, now>>
    /\ selectedShape' = IF isConnecting THEN selectedShape ELSE id
    /\ selectedConnection' = IF isConnecting THEN selectedConnection ELSE NULL
    /\ UNCHANGED <<shapes, drawings, backgroundColor, isDrawing, isEraserActive,
                   drawLogVars, identityVars, erasedPaths>>

ConnectionSelectKeepsShape(id) ==
    /\ \E i \in 1..Len(connections) : connections[i].id = id /\ Rendered(connections[i])
    /\ selectedConnection' = id
    /\ selectedShape' = selectedShape
    /\ lastOp' = Op("ConnectionSelect", id)
    /\ UNCHANGED <<modelVars, backgroundColor, modeVars, drawLogVars, mainLogVars,
                   identityVars, erasedPaths, now>>

ConnectionSelect(id) ==
    /\ \E i \in 1..Len(connections) : connections[i].id = id /\ Rendered(connections[i])
    /\ selectedConnection' = id
    /\ selectedShape' = NULL
    /\ lastOp' = Op("ConnectionSelect", id)
    /\ UNCHANGED <<modelVars, backgroundColor, modeVars, drawLogVars, mainLogVars,
                   identityVars, erasedPaths, now>>

ConnectionStyleChange(id, lineStyle, arrowStyle) ==
    /\ IF Has(connections, id) THEN
            LET connection == Find(connections, id)
                oldStyles == [lineStyle |-> connection.lineStyle,
                              arrowStyle |-> connection.arrowStyle]
            IN  /\ CanRecord
                /\ connections' = [i \in 1..Len(connections) |->
                        IF connections[i].id = id
                        THEN [connections[i] EXCEPT !.lineStyle = lineStyle,
                                                    !.arrowStyle = arrowStyle]
                        ELSE connections[i]]
                /\ history' = AddToHistory(
                        [type |-> "UPDATE_CONNECTION_STYLE",
                         data |-> [id |-> id, oldStyles |-> oldStyles,
                                   newStyles |-> [lineStyle |-> lineStyle,
                                                  arrowStyle |-> arrowStyle]]])
                /\ historyIndex' = historyIndex + 1
                /\ lastOp' = RecOp("ConnectionStyleChange", id)
       ELSE /\ lastOp' = Op("ConnectionStyleChange", id)
            /\ UNCHANGED <<connections, mainLogVars>>
    /\ UNCHANGED <<shapes, drawings, backgroundColor, selectionVars, modeVars, drawLogVars,
                   identityVars, erasedPaths, now>>

ShapeColorChangeUnrecorded(id, color) ==
    /\ shapes' = [i \in 1..Len(shapes) |->
            IF shapes[i].id = id THEN [shapes[i] EXCEPT !.borderColor = color]
            ELSE shapes[i]]
    /\ lastOp' = Op("ShapeColorChange", id)
    /\ UNCHANGED <<connections, drawings, backgroundColor, selectionVars, modeVars,
                   drawLogVars, mainLogVars, identityVars, erasedPaths, now>>

ShapeColorChange(id, color) ==
    /\ IF Has(shapes, id) THEN
            LET shape == Find(shapes, id)
                oldColor == shape.borderColor
            IN  /\ CanRecord
                /\ shapes' = [i \in 1..Len(shapes) |->
                        IF shapes[i].id = id THEN [shapes[i] EXCEPT !.borderColor = color]
                        ELSE shapes[i]]
                /\ history' = AddToHistory(
                        [type |-> "UPDATE_SHAPE_COLOR",
                         data |-> [id |-> id, oldColor |-> oldColor, newColor |-> color]])
                /\ historyIndex' = historyIndex + 1
                /\ lastOp' = RecOp("ShapeColorChange", id)
       ELSE /\ lastOp' = Op("ShapeColorChange", id)
            /\ UNCHANGED <<shapes, mainLogVars>>
    /\ UNCHANGED <<connections, drawings, backgroundColor, selectionVars, modeVars,
                   drawLogVars, identityVars, erasedPaths, now>>

(* --------------------- mutations that record nothing ------------------- *)
Drag(id, position, isEndPoint) ==
    /\ shapes' = [i \in 1..Len(shapes) |->
            IF shapes[i].id = id
            THEN IF isEndPoint
                 THEN [endPoint |-> position] @@ shapes[i]
                 ELSE [shapes[i] EXCEPT !.position = position]
            ELSE shapes[i]]
    /\ lastOp' = Op("Drag", id)
    /\ UNCHANGED <<connections, drawings, backgroundColor, selectionVars, modeVars,
                   drawLogVars, mainLogVars, identityVars, erasedPaths, now>>

TextEdit(id, text) ==
    /\ shapes' = [i \in 1..Len(shapes) |->
            IF shapes[i].id = id THEN [shapes[i] EXCEPT !.text = text] ELSE shapes[i]]
    /\ lastOp' = Op("TextEdit", id)
    /\ UNCHANGED <<connections, drawings, backgroundColor, selectionVars, modeVars,
                   drawLogVars, mainLogVars, identityVars, erasedPaths, now>>

ResizeShape(id, width, height) ==
    /\ shapes' = [i \in 1..Len(shapes) |->
            IF shapes[i].id = id
            THEN [shapes[i] EXCEPT !.width = width, !.height = height]
            ELSE shapes[i]]
    /\ lastOp' = Op("ResizeShape", id)
    /\ UNCHANGED <<connections, drawings, backgroundColor, selectionVars, modeVars,
                   drawLogVars, mainLogVars, identityVars, erasedPaths, now>>

BorderWidthChangeAll(id, width) ==
    /\ shapes' = [i \in 1..Len(shapes) |-> [shapes[i] EXCEPT !.borderWidth = width]]
    /\ lastOp' = Op("BorderWidthChange", id)
    /\ UNCHANGED <<connections, drawings, backgroundColor, selectionVars, modeVars,
                   drawLogVars, mainLogVars, identityVars, erasedPaths, now>>

BorderWidthChange(id, width) ==
    /\ shapes' = [i \in 1..Len(shapes) |->
            IF shapes[i].id = id THEN [shapes[i] EXCEPT !.borderWidth = width]
            ELSE shapes[i]]
    /\ lastOp' = Op("BorderWidthChange", id)
    /\ UNCHANGED <<connections, drawings, backgroundColor, selectionVars, modeVars,
                   drawLogVars, mainLogVars, identityVars, erasedPaths, now>>

(* ------------------------------ undo / redo ---------------------------- *)
CanUndoSkipFirst == historyIndex > 0

CanUndo == historyIndex >= 0

CanRedoPastEnd == historyIndex < Len(history) - 2

CanRedo == historyIndex < Len(history) - 1

Undo ==
    /\ IF CanUndo THEN
            LET e == history[historyIndex + 1] IN
            /\ shapes' = UndoShapes(e, shapes)
            /\ connections' = UndoConnections(e, connections)
            /\ drawings' = UndoDrawings(e, drawings)
            /\ currentDiagramId' = UndoCurrentDiagramId(e, currentDiagramId)
            /\ shareUrl' = UndoShareUrl(e, shareUrl)
            /\ isPublic' = UndoIsPublic(e, isPublic)
            /\ historyIndex' = historyIndex - 1
       ELSE UNCHANGED <<modelVars, identityVars, historyIndex>>
    /\ lastOp' = Op("Undo", IF CanUndo THEN historyIndex ELSE NULL)
    /\ UNCHANGED <<history, backgroundColor, selectionVars, modeVars, drawLogVars,
                   erasedPaths, now>>

Redo ==
    /\ IF CanRedo THEN
            LET e == history[historyIndex + 2] IN
            /\ shapes' = RedoShapes(e, shapes)
            /\ connections' = RedoConnections(e, connections)
            /\ drawings' = RedoDrawings(e, drawings)
            /\ currentDiagramId' = RedoCurrentDiagramId(e, currentDiagramId)
            /\ shareUrl' = RedoShareUrl(e, shareUrl)
            /\ isPublic' = RedoIsPublic(e, isPublic)
            /\ historyIndex' = historyIndex + 1
       ELSE UNCHANGED <<modelVars, identityVars, historyIndex>>
    /\ lastOp' = Op("Redo", IF CanRedo THEN historyIndex + 1 ELSE NULL)
    /\ UNCHANGED <<history, backgroundColor, selectionVars, modeVars, drawLogVars,
                   erasedPaths, now>>

(* ------------------------------ drawing -------------------------------- *)
Abs(v) == IF v < 0 THEN -v ELSE v

CanRecordDrawing == drawingHistoryIndex < MaxDrawingHistory

\* handleMouseUp of a stroke whose captured points are `points`, then handleDrawingComplete
DrawingComplete(points, t) ==
    LET newPath == [id |-> t,
                    points |-> Append(points, [points[Len(points)] EXCEPT !.type = "end"]),
                    color |-> "#000", width |-> 2]
        newDrawings == Append(drawings, newPath)
    IN  /\ isDrawing /\ ~isEraserActive
        /\ Len(points) > 0
        /\ Len(drawings) < MaxDrawings
        /\ CanRecordDrawing
        /\ drawings' = newDrawings
        /\ drawingHistory' = Append(SubSeq(drawingHistory, 1, drawingHistoryIndex + 1),
                                    newDrawings)
        /\ drawingHistoryIndex' = drawingHistoryIndex + 1
        /\ now' = t
        /\ lastOp' = Op("DrawingComplete", t)
        /\ UNCHANGED <<shapes, connections, backgroundColor, selectionVars, modeVars,
                       mainLogVars, identityVars, erasedPaths>>

\* erasePath(x, y) of an eraser pointer event, then handleErase
ErasePointerFirstHit(x, y) ==
    LET tolerance == 10
        inSeq(q, id) == \E k \in 1..Len(q) : q[k] = id
        hit(path) ==
            /\ ~inSeq(erasedPaths, path.id)
            /\ \E k \in 1..Len(path.points) :
                    /\ Abs(path.points[k].x - x) <= tolerance
                    /\ Abs(path.points[k].y - y) <= tolerance
        allHit == SelectSeq(drawings, hit)
        pathsToErase == SubSeq(allHit, 1, IF Len(allHit) > 0 THEN 1 ELSE 0)
        newErasedPaths == [k \in 1..Len(pathsToErase) |-> pathsToErase[k].id]
        keep(d) == ~inSeq(newErasedPaths, d.id)
        newDrawings == SelectSeq(drawings, keep)
    IN  /\ isEraserActive
        /\ IF Len(pathsToErase) > 0 THEN
                /\ CanRecordDrawing
                /\ erasedPaths' = erasedPaths \o newErasedPaths
                /\ drawings' = newDrawings
                /\ drawingHistory' = Append(SubSeq(drawingHistory, 1, drawingHistoryIndex + 1),
                                            newDrawings)
                /\ drawingHistoryIndex' = drawingHistoryIndex + 1
           ELSE UNCHANGED <<erasedPaths, drawings, drawLogVars>>
        /\ lastOp' = Op("ErasePointer", NULL)
        /\ UNCHANGED <<shapes, connections, backgroundColor, selectionVars, modeVars,
                       mainLogVars, identityVars, now>>

ErasePointer(x, y) ==
    LET tolerance == 10
        inSeq(q, id) == \E k \in 1..Len(q) : q[k] = id
        hit(path) ==
            /\ ~inSeq(erasedPaths, path.id)
            /\ \E k \in 1..Len(path.points) :
                    /\ Abs(path.points[k].x - x) <= tolerance
                    /\ Abs(path.points[k].y - y) <= tolerance
        pathsToErase == SelectSeq(drawings, hit)
        newErasedPaths == [k \in 1..Len(pathsToErase) |-> pathsToErase[k].id]
        keep(d) == ~inSeq(newErasedPaths, d.id)
        newDrawings == SelectSeq(drawings, keep)
    IN  /\ isEraserActive
        /\ IF Len(pathsToErase) > 0 THEN
                /\ CanRecordDrawing
                /\ erasedPaths' = erasedPaths \o newErasedPaths
                /\ drawings' = newDrawings
                /\ drawingHistory' = Append(SubSeq(drawingHistory, 1, drawingHistoryIndex + 1),
                                            newDrawings)
                /\ drawingHistoryIndex' = drawingHistoryIndex + 1
           ELSE UNCHANGED <<erasedPaths, drawings, drawLogVars>>
        /\ lastOp' = Op("ErasePointer", NULL)
        /\ UNCHANGED <<shapes, connections, backgroundColor, selectionVars, modeVars,
                       mainLogVars, identityVars, now>>

\* undoDrawing, called by the event that the ghost lastOp records as `op`
UndoDrawingByUnguarded(op) ==
    /\ drawingHistoryIndex' = drawingHistoryIndex - 1
    /\ drawings' = IF drawingHistoryIndex > 0 THEN drawingHistory[drawingHistoryIndex]
                   ELSE drawings
    /\ lastOp' = op
    /\ UNCHANGED <<shapes, connections, backgroundColor, selectionVars, modeVars,
                   drawingHistory, mainLogVars, identityVars, erasedPaths, now>>

UndoDrawingBy(op) ==
    /\ IF drawingHistoryIndex > 0 THEN
            /\ drawingHistoryIndex' = drawingHistoryIndex - 1
            /\ drawings' = drawingHistory[drawingHistoryIndex]
       ELSE UNCHANGED <<drawingHistoryIndex, drawings>>
    /\ lastOp' = op
    /\ UNCHANGED <<shapes, connections, backgroundColor, selectionVars, modeVars,
                   drawingHistory, mainLogVars, identityVars, erasedPaths, now>>

UndoDrawing == UndoDrawingBy(Op("UndoDrawing", NULL))

RedoDrawingBy(op) ==
    /\ IF drawingHistoryIndex < Len(drawingHistory) - 1 THEN
            /\ drawingHistoryIndex' = drawingHistoryIndex + 1
            /\ drawings' = drawingHistory[drawingHistoryIndex + 2]
       ELSE UNCHANGED <<drawingHistoryIndex, drawings>>
    /\ lastOp' = op
    /\ UNCHANGED <<shapes, connections, backgroundColor, selectionVars, modeVars,
                   drawingHistory, mainLogVars, identityVars, erasedPaths, now>>

RedoDrawing == RedoDrawingBy(Op("RedoDrawing", NULL))

(* ------------------------ the diagrams store --------------------------- *)
(* ------------------------ Shape resize handles ------------------------- *)
Max(a, b) == IF a >= b THEN a ELSE b

\* the size that the mousemove listener of a resize gives to onResize, for the raw
\* width and height computed from the pointer
ClampedSizeUnlocked(type, w, h) == [width |-> Max(50, w), height |-> Max(50, h)]

ClampedSize(type, w, h) ==
    LET locked == type \in {"square", "circle", "diamond"}
        size == Max(w, h)
        newWidth == IF locked THEN size ELSE w
        newHeight == IF locked THEN size ELSE h
    IN  [width |-> Max(50, newWidth), height |-> Max(50, newHeight)]

\* a pointer move while a handle of the i-th shape is dragged; the handles are
\* drawn on the selected shape unless it is a line.  snap records the event.
ResizeMove(i, w, h) ==
    LET shape == shapes[i]
        new == ClampedSize(shape.type, w, h)
    IN  /\ selectedShape = shape.id
        /\ shape.type # "line"
        /\ ResizeShape(shape.id, new.width, new.height)
        /\ snap' = [index |-> i, w |-> w, h |-> h]
        /\ UNCHANGED <<phase, persistVars, canvasVars>>

(* ---------------- DrawingCanvas pointer and key events ----------------- *)
\* A gesture is pointer-down, pointer-moves, pointer-up (or pointer-leave).  While
\* isDrawingActive the pointer is held down on the canvas, so no button outside
\* the canvas is clicked.  snap records the positions of the draw gesture, or the
\* position of the last eraser event.
MaxMoves == 2

PointerAway == ~isDrawingActive

MouseDown(p) ==
    /\ isDrawing \/ isEraserActive
    /\ isDrawingActive' = TRUE
    /\ snap' = << p >>
    /\ IF isEraserActive THEN
            /\ ErasePointer(p.x, p.y)
            /\ UNCHANGED currentPath
       ELSE
            /\ currentPath' = << [x |-> p.x, y |-> p.y, type |-> "start"] >>
            /\ lastOp' = Op("MouseDown", NULL)
            /\ UNCHANGED progVars
    /\ UNCHANGED <<persistVars, phase>>

MouseMove(p) ==
    /\ isDrawingActive
    /\ IF isEraserActive THEN
            /\ ErasePointer(p.x, p.y)
            /\ snap' = << p >>
            /\ UNCHANGED currentPath
       ELSE
            /\ Len(currentPath) <= MaxMoves
            /\ currentPath' = Append(currentPath, [x |-> p.x, y |-> p.y, type |-> "point"])
            /\ snap' = Append(snap, p)
            /\ lastOp' = Op("MouseMove", NULL)
            /\ UNCHANGED progVars
    /\ UNCHANGED <<isDrawingActive, persistVars, phase>>

\* onMouseUp and onMouseLeave
MouseUpDropsPath ==
    /\ isDrawingActive
    /\ lastOp' = Op("MouseUp", NULL)
    /\ UNCHANGED progVars
    /\ currentPath' = <<>>
    /\ isDrawingActive' = FALSE
    /\ snap' = <<>>
    /\ UNCHANGED <<persistVars, phase>>

MouseUp ==
    /\ isDrawingActive
    /\ IF ~isEraserActive /\ Len(currentPath) > 0
       THEN \E t \in ClockReads : DrawingComplete(currentPath, t)
       ELSE /\ lastOp' = Op("MouseUp", NULL)
            /\ UNCHANGED progVars
    /\ currentPath' = <<>>
    /\ isDrawingActive' = FALSE
    /\ snap' = <<>>
    /\ UNCHANGED <<persistVars, phase>>

\* key-down events of the Z key and of another key.  The key value of the Z key
\* is "z" or "Z": which one the browser reports depends on Shift, on Caps Lock
\* and, with Cmd held, on the platform.
KeyEvent(n) ==
    [ctrlKey |-> n % 2 = 1, metaKey |-> (n \div 2) % 2 = 1, shiftKey |-> (n \div 4) % 2 = 1,
     key |-> CASE n \div 8 = 0 -> "z" [] n \div 8 = 1 -> "Z" [] OTHER -> "y"]

KeyNumbers == 0..23

\* what the window keydown listener of DrawingCanvas calls
KeyCall(e) ==
    IF (e.ctrlKey \/ e.metaKey) /\ e.key = "z"
    THEN IF e.shiftKey THEN "onRedo" ELSE "onUndo"
    ELSE "none"

\* the n-th key event; the ghost lastOp records n
KeyDown(n) ==
    /\ CASE KeyCall(KeyEvent(n)) = "onUndo" -> UndoDrawingBy(Op("KeyDown", n))
          [] KeyCall(KeyEvent(n)) = "onRedo" -> RedoDrawingBy(Op("KeyDown", n))
          [] OTHER -> UNCHANGED progVars /\ lastOp' = Op("KeyDown", n)
    /\ UNCHANGED <<persistVars, canvasVars, phase, snap>>

\* The store is the external diagrams table.  A request is sent when the handler
\* runs and answered later, with success or with an error; the handler's
\* continuation runs when the answer arrives, with the values its closure captured.
Users == {1}

MaxStoreRows == 2
MaxInflight == 2
MaxUuids == 2

\* `${window.location.origin}/diagram/${shareId}`
ShareUrlOf(shareId) ==
    CASE shareId = 0 -> "/diagram/0"
      [] shareId = 1 -> "/diagram/1"
      [] OTHER -> "/diagram/2"

\* supabase.auth.onAuthStateChange: a sign-in or a sign-out
AuthChange(u) ==
    /\ user # u
    /\ user' = u
    /\ lastOp' = Op("AuthChange", NULL)
    /\ UNCHANGED <<progVars, store, inflight, uuids, file, notice>>

TogglePublic(newIsPublic) ==
    /\ IF user = NULL THEN
            /\ notice' = "Please sign in to change diagram visibility"
            /\ UNCHANGED <<inflight, uuids>>
       ELSE IF currentDiagramId = NULL THEN
            /\ Len(inflight) < MaxInflight
            /\ uuids < MaxUuids
            /\ uuids' = uuids + 1
            /\ inflight' = Append(inflight,
                    [op |-> "insert",
                     data |-> [shapes |-> shapes, connections |-> connections,
                               drawings |-> drawings],
                     owner_id |-> user, share_id |-> uuids + 1, is_public |-> newIsPublic])
            /\ UNCHANGED notice
       ELSE
            /\ Len(inflight) < MaxInflight
            /\ inflight' = Append(inflight,
                    [op |-> "update", id |-> currentDiagramId, owner_id |-> user,
                     is_public |-> newIsPublic])
            /\ UNCHANGED <<notice, uuids>>
    /\ lastOp' = Op("TogglePublic", NULL)
    /\ UNCHANGED <<progVars, user, store, file>>

\* loadDiagram(diagramId), called by the effect that runs when the editor is mounted
\* with a diagramId: the request carries the user of the render it was made in
LoadDiagramRequest(id) == [op |-> "select", id |-> id, user |-> NULL]

StoreRow(id) == store[CHOOSE i \in 1..Len(store) : store[i].id = id]

\* the tip of the catch block of the function that sent the request
FailureNoticeNone(op) == notice

FailureNotice(op) ==
    CASE op = "select" -> "Failed to load diagram"
      [] op = "insert" -> "Failed to save diagram. Please try again."
      [] OTHER -> "Failed to update diagram visibility"

\* the request is answered with an error
Fails(r, ok) == ~ok \/ (r.op = "select" /\ r.id \notin IdsOf(store))

FailedOp(op) ==
    CASE op = "select" -> "LoadFails"
      [] op = "insert" -> "SaveFails"
      [] OTHER -> "UpdateFails"

\* the answer to request k arrives: the rest of loadDiagram or of
\* handleTogglePublic runs
StoreResponds(k, ok) ==
    LET r == inflight[k]
        rest == SubSeq(inflight, 1, k - 1) \o SubSeq(inflight, k + 1, Len(inflight))
    IN  /\ inflight' = rest
        /\ IF r.op = "select" THEN
                \* .single() answers with an error when no row has the id
                IF ~Fails(r, ok) THEN
                    LET diagram == StoreRow(r.id) IN
                    IF ~diagram.is_public /\ diagram.owner_id # r.user THEN
                        /\ notice' = "You don't have permission to view this diagram"
                        /\ UNCHANGED <<modelVars, store, identityVars>>
                    ELSE
                        /\ shapes' = diagram.data.shapes
                        /\ connections' = diagram.data.connections
                        /\ drawings' = diagram.data.drawings
                        /\ isPublic' = diagram.is_public
                        /\ currentDiagramId' = diagram.id
                        /\ shareUrl' = ShareUrlOf(diagram.share_id)
                        /\ UNCHANGED <<store, notice>>
                ELSE
                    /\ notice' = FailureNotice(r.op)
                    /\ UNCHANGED <<modelVars, store, identityVars>>
           ELSE IF r.op = "insert" THEN
                IF ok THEN
                    /\ Len(store) < MaxStoreRows
                    /\ store' = Append(store,
                            [id |-> Len(store) + 1, data |-> r.data, owner_id |-> r.owner_id,
                             share_id |-> r.share_id, is_public |-> r.is_public])
                    /\ currentDiagramId' = Len(store) + 1
                    /\ shareUrl' = ShareUrlOf(r.share_id)
                    /\ isPublic' = r.is_public
                    /\ notice' = "Diagram saved and made public successfully!"
                    /\ UNCHANGED modelVars
                ELSE
                    /\ notice' = FailureNotice(r.op)
                    /\ UNCHANGED <<modelVars, store, identityVars>>
           ELSE
                IF ok THEN
                    /\ store' = [i \in 1..Len(store) |->
                            IF store[i].id = r.id /\ store[i].owner_id = r.owner_id
                            THEN [store[i] EXCEPT !.is_public = r.is_public]
                            ELSE store[i]]
                    /\ isPublic' = r.is_public
                    /\ notice' = IF r.is_public THEN "Diagram is now public"
                                  ELSE "Diagram is now private"
                    /\ UNCHANGED <<modelVars, shareUrl, currentDiagramId>>
                ELSE
                    /\ notice' = FailureNotice(r.op)
                    /\ UNCHANGED <<modelVars, store, identityVars>>
        /\ lastOp' = Op(IF Fails(r, ok) THEN FailedOp(r.op) ELSE "StoreResponds", NULL)
        /\ UNCHANGED <<backgroundColor, selectionVars, modeVars, drawLogVars,
                       mainLogVars, erasedPaths, now, user, uuids, file>>

AuthEvent == \E u \in Users \cup {NULL} : AuthChange(u)
TogglePublicEvent == \E b \in BOOLEAN : TogglePublic(b)
StoreRespondsEvent == \E k \in 1..Len(inflight), ok \in BOOLEAN : StoreResponds(k, ok)

(* ------------------------- file save and load -------------------------- *)
\* A file is a text.  A text that is JSON is given by the value it denotes:
\* a number, a string, an array, null, or an object with its members.
DiagramKeys == {"shapes", "connections", "drawings"}

\* JSON.stringify(data) of handleSave's data: the own properties of the object
JsonStringifyWithoutDrawings(data) ==
    [kind |-> "json",
     value |-> [type |-> "object",
                members |-> [k \in DOMAIN data \ {"drawings"} |-> data[k]]]]

JsonStringify(data) ==
    [kind |-> "json",
     value |-> [type |-> "object", members |-> [k \in DOMAIN data |-> data[k]]]]

\* JSON.parse(text): the value, or a SyntaxError
JsonParse(text) ==
    IF text.kind = "json" THEN [ok |-> TRUE, value |-> text.value] ELSE [ok |-> FALSE]

\* data.key || []: reading a property of null throws; a number, a string and an
\* array have no such property, and neither has an object without that member
CanReadProperties(value) == value.type # "null"

MemberOrEmpty(value, key) ==
    IF value.type = "object" /\ key \in DOMAIN value.members
    THEN value.members[key]
    ELSE <<>>

\* the files the user can pick in the file input besides the downloaded one
OtherFiles ==
    << [kind |-> "garbage"],
       [kind |-> "json", value |-> [type |-> "number"]],
       [kind |-> "json", value |-> [type |-> "string"]],
       [kind |-> "json", value |-> [type |-> "array"]],
       [kind |-> "json", value |-> [type |-> "null"]],
       [kind |-> "json", value |-> [type |-> "object", members |-> <<>>]],
       [kind |-> "json",
        value |-> [type |-> "object",
                   members |-> [k \in {"shapes"} |->
                        << NewShape("rectangle", [x |-> 100, y |-> 100], 30, 0) >>]]],
       [kind |-> "json",
        value |-> [type |-> "object",
                   members |-> [k \in {"connections", "drawings"} |-> <<>>]]] >>

\* file 0 is the diagram.json of the last save
ChosenFile(k) == IF k = 0 THEN file ELSE OtherFiles[k]

LoadFailedNotice == "Failed to load diagram. Please try again with a valid file."

HandleSave ==
    /\ file' = JsonStringify([shapes |-> shapes, connections |-> connections,
                               drawings |-> drawings])
    /\ snap' = [shapes |-> shapes, connections |-> connections, drawings |-> drawings,
                backgroundColor |-> backgroundColor]
    /\ lastOp' = Op("Save", NULL)
    /\ UNCHANGED <<progVars, user, store, inflight, uuids, notice, phase, canvasVars>>

\* handleLoad and the reader's onload for the chosen file
HandleLoadKeepsHistory(k) ==
    /\ k = 0 => file.kind # "none"
    /\ LET parsed == JsonParse(ChosenFile(k)) IN
        IF parsed.ok /\ CanReadProperties(parsed.value) THEN
            /\ shapes' = MemberOrEmpty(parsed.value, "shapes")
            /\ connections' = MemberOrEmpty(parsed.value, "connections")
            /\ drawings' = MemberOrEmpty(parsed.value, "drawings")
            /\ UNCHANGED mainLogVars
            /\ UNCHANGED notice
        ELSE
            /\ notice' = LoadFailedNotice
            /\ UNCHANGED <<modelVars, mainLogVars>>
    /\ lastOp' = Op("Load", k)
    /\ UNCHANGED <<backgroundColor, selectionVars, modeVars, drawLogVars, identityVars,
                   erasedPaths, now, user, store, inflight, uuids, file, phase, snap,
                   canvasVars>>

HandleLoad(k) ==
    /\ k = 0 => file.kind # "none"
    /\ LET parsed == JsonParse(ChosenFile(k)) IN
        IF parsed.ok /\ CanReadProperties(parsed.value) THEN
            /\ shapes' = MemberOrEmpty(parsed.value, "shapes")
            /\ connections' = MemberOrEmpty(parsed.value, "connections")
            /\ drawings' = MemberOrEmpty(parsed.value, "drawings")
            /\ history' = <<>>
            /\ historyIndex' = -1
            /\ UNCHANGED notice
        ELSE
            /\ notice' = LoadFailedNotice
            /\ UNCHANGED <<modelVars, mainLogVars>>
    /\ lastOp' = Op("Load", k)
    /\ UNCHANGED <<backgroundColor, selectionVars, modeVars, drawLogVars, identityVars,
                   erasedPaths, now, user, store, inflight, uuids, file, phase, snap,
                   canvasVars>>

BackgroundColors == {"#FF0000", "#00FF00"}

\* handleBackgroundColorChange, called by the colour picker, which is drawn inside
\* the canvas container: its click reaches the container's onClick unless the
\* picker stops it
BackgroundColorChange(color) ==
    /\ backgroundColor' = color
    /\ \/ UNCHANGED <<selectionVars, isConnecting, connectionStart>>
       \/ ContainerOnClick(isConnecting, connectionStart)
    /\ lastOp' = Op("BackgroundColorChange", NULL)
    /\ UNCHANGED <<modelVars, isDrawing, isEraserActive, drawLogVars, mainLogVars,
                   identityVars, erasedPaths, now>>

LoadEvent == \E k \in 0..Len(OtherFiles) : HandleLoad(k)
BackgroundColorEvent == \E color \in BackgroundColors : BackgroundColorChange(color)

(* --------------------------- specifications ---------------------------- *)
ErasePoints == {[x |-> 15, y |-> 5]}

\* the ids a child component can hand to a handler, and one that names nothing
ShapeArgs == IdsOf(shapes) \cup StaleIds
ConnectionArgs == IdsOf(connections) \cup StaleIds

AddShapeEvent == \E type \in AddTypes, position \in AddPositions, t \in ClockReads :
                    ToolbarAddShape(type, position, t)
SelectShapeEvent == \E id \in IdsOf(shapes) : SelectShape(id)
ConnectionSelectEvent == \E id \in IdsOf(connections) : ConnectionSelect(id)
ConnectionStyleEvent == \E id \in ConnectionArgs, ls \in PickLineStyles, as \in PickArrowStyles :
                            ConnectionStyleChange(id, ls, as)
ShapeColorEvent == \E id \in ShapeArgs, color \in PickColors : ShapeColorChange(id, color)
DragEvent == \E id \in ShapeArgs, position \in DragPositions : Drag(id, position, FALSE)
TextEditEvent == \E id \in ShapeArgs, text \in EditTexts : TextEdit(id, text)
ResizeEvent == \E id \in ShapeArgs, size \in ResizeSizes : ResizeShape(id, size.width, size.height)
BorderWidthEvent == \E id \in ShapeArgs, width \in BorderWidths : BorderWidthChange(id, width)
StrokeEvent == \E points \in StrokePoints, t \in ClockReads :
                    DrawingComplete(SubSeq(points, 1, Len(points) - 1), t)
EraseEvent == \E p \in ErasePoints : ErasePointer(p.x, p.y)

\* events that touch the main log, the selection or the tool modes, undo and redo apart
GestureEvent ==
    \/ AddShapeEvent
    \/ SelectShapeEvent
    \/ ConnectionSelectEvent
    \/ CanvasClick
    \/ ToolbarStartConnection
    \/ ToolbarStartDrawing
    \/ ToolbarToggleEraser
    \/ ToolbarDelete
    \/ ToolbarClearScreen
    \/ ConnectionStyleEvent
    \/ ShapeColorEvent

Next ==
    /\ \/ GestureEvent
       \/ Undo
       \/ Redo
    /\ UNCHANGED <<phase, snap, persistVars, canvasVars>>

Spec == Init /\ [][Next]_vars

\* the editor with one shape at most, under the shape mutations that record nothing
MaxMutatedShapes == 1

NextUnrecorded ==
    /\ \/ (Len(shapes) < MaxMutatedShapes /\ AddShapeEvent)
       \/ SelectShapeEvent
       \/ CanvasClick
       \/ ToolbarDelete
       \/ ToolbarClearScreen
       \/ ShapeColorEvent
       \/ DragEvent
       \/ TextEditEvent
       \/ ResizeEvent
       \/ BorderWidthEvent
       \/ Undo
       \/ Redo
    /\ UNCHANGED <<phase, snap, persistVars, canvasVars>>

SpecUnrecorded == Init /\ [][NextUnrecorded]_vars

\* N recorded actions from an empty log, then undo x N, then redo x N.
\* A diagram handed over as initialData starts with an empty log as well.
SharedDiagram ==
    [shapes |-> << [NewShape("rectangle", [x |-> 100, y |-> 100], 10, 0)
                        EXCEPT !.borderColor = "#0000FF"],
                   NewShape("circle", [x |-> 400, y |-> 100], 11, 1) >>,
     connections |-> << [NewConnection(10, 11, 12) EXCEPT !.lineStyle = "dotted"] >>,
     drawings |-> << [id |-> 13, color |-> "#000", width |-> 2,
                      points |-> << [x |-> 10, y |-> 10, type |-> "start"],
                                    [x |-> 10, y |-> 10, type |-> "end"] >>] >>]

InitialDatas == {NoData, SharedDiagram}

\* a shared diagram of three shapes in a chain: 20 -> 21 -> 22
ChainDiagram ==
    [shapes |-> << NewShape("rectangle", [x |-> 100, y |-> 100], 20, 0),
                   NewShape("circle", [x |-> 400, y |-> 100], 21, 1),
                   NewShape("diamond", [x |-> 700, y |-> 100], 22, 2) >>,
     connections |-> << [NewConnection(20, 21, 23) EXCEPT !.lineStyle = "dotted"],
                        [NewConnection(21, 22, 24) EXCEPT !.arrowStyle = "both"] >>,
     drawings |-> << >>]

\* the editor opened on a shared diagram (App's collaborate route)
InitShared == InitWith(ChainDiagram) /\ phase = "free"

\* selecting, connecting and deleting on the shared diagram
NextShared ==
    /\ \/ SelectShapeEvent
       \/ CanvasClick
       \/ ToolbarStartConnection
       \/ ToolbarDelete
       \/ Undo
       \/ Redo
    /\ UNCHANGED <<phase, snap, persistVars, canvasVars>>

SpecShared == InitShared /\ [][NextShared]_vars

\* drawing and erasing next to a main log of at most MaxLoggedWhileDrawing entries
MaxLoggedWhileDrawing == 2
MaxStrokesWhileDrawing == 1
MaxDrawnWhileDrawing == 2

NextDrawing ==
    /\ \/ ToolbarStartDrawing
       \/ ToolbarToggleEraser
       \/ /\ drawingHistoryIndex < MaxDrawnWhileDrawing
          /\ \/ (Len(drawings) < MaxStrokesWhileDrawing /\ StrokeEvent)
             \/ EraseEvent
       \/ UndoDrawing
       \/ RedoDrawing
       \/ (historyIndex + 1 < MaxLoggedWhileDrawing /\ ToolbarClearScreen)
       \/ Undo
       \/ Redo
    /\ UNCHANGED <<phase, snap, persistVars, canvasVars>>

SpecDrawing == Init /\ [][NextDrawing]_vars

\* a diagram that is saved to the store, made public or private, cleared and
\* restored, with a main log of at most MaxLoggedWhileSaving entries
MaxLoggedWhileSaving == 2
\* with one request to the store outstanding at a time and one row in the store
MaxRequestsWhileSaving == 1
MaxRowsWhileSaving == 1

NextIdentity ==
    /\ \/ /\ \/ /\ historyIndex + 1 < MaxLoggedWhileSaving
                /\ \/ (Len(shapes) < MaxMutatedShapes /\ AddShapeEvent)
                   \/ ToolbarClearScreen
             \/ Undo
             \/ Redo
          /\ UNCHANGED persistVars
       \/ AuthEvent
       \/ ((user # NULL => Len(inflight) < MaxRequestsWhileSaving) /\ TogglePublicEvent)
       \/ \E k \in 1..Len(inflight), ok \in BOOLEAN :
                /\ (inflight[k].op = "insert" /\ ok) => Len(store) < MaxRowsWhileSaving
                /\ StoreResponds(k, ok)
    /\ UNCHANGED <<phase, snap, canvasVars>>

\* the editor opened on the shared diagram of two shapes, a connection and a stroke
InitSaved == InitWith(SharedDiagram) /\ phase = "free"

SpecIdentity == InitSaved /\ [][NextIdentity]_vars

\* every operation that records, next to drags, on the shared diagram, with a
\* main log of at most MaxLoggedWhileDragging entries
MaxLoggedWhileDragging == 2

NextRecorded ==
    /\ \/ /\ historyIndex + 1 < MaxLoggedWhileDragging
          /\ \/ AddShapeEvent
             \/ SelectShapeEvent
             \/ ToolbarDelete
             \/ ToolbarClearScreen
             \/ ConnectionStyleEvent
             \/ ShapeColorEvent
       \/ ConnectionSelectEvent
       \/ ToolbarStartConnection
       \/ DragEvent
       \/ Undo
    /\ UNCHANGED <<phase, snap, persistVars, canvasVars>>

SpecRecorded == InitSaved /\ [][NextRecorded]_vars

\* connecting and restyling, on the chain diagram or on two unconnected shapes
PairDiagram == [SharedDiagram EXCEPT !.connections = <<>>, !.drawings = <<>>]

InitStyle == (\E d \in {ChainDiagram, PairDiagram} : InitWith(d)) /\ phase = "free"

NextStyle ==
    /\ \/ SelectShapeEvent
       \/ ToolbarStartConnection
       \/ ConnectionStyleEvent
       \/ Undo
       \/ Redo
    /\ UNCHANGED <<phase, snap, persistVars, canvasVars>>

SpecStyle == InitStyle /\ [][NextStyle]_vars

\* handlers called with an id that names nothing: the id of an element that an
\* undo or a delete removed, or one that never existed
AbsentShapeArgs == (StaleIds \cup 0..MaxClock) \ IdsOf(shapes)
AbsentConnectionArgs == (StaleIds \cup 0..MaxClock) \ IdsOf(connections)

StaleCallEvent ==
    \/ \E id \in AbsentShapeArgs :
            \/ \E position \in DragPositions : Drag(id, position, FALSE)
            \/ \E text \in EditTexts : TextEdit(id, text)
            \/ \E size \in ResizeSizes : ResizeShape(id, size.width, size.height)
            \/ \E width \in BorderWidths : BorderWidthChange(id, width)
            \/ \E color \in PickColors : ShapeColorChange(id, color)
    \/ \E id \in AbsentConnectionArgs, ls \in PickLineStyles, as \in PickArrowStyles :
            ConnectionStyleChange(id, ls, as)

InitStale == (\E d \in {NoData, PairDiagram} : InitWith(d)) /\ phase = "free"

NextStale ==
    /\ \/ /\ historyIndex + 1 < MaxLoggedWhileDragging
          /\ \/ AddShapeEvent
             \/ SelectShapeEvent
             \/ ToolbarDelete
       \/ ConnectionSelectEvent
       \/ ToolbarStartConnection
       \/ Undo
       \/ StaleCallEvent
    /\ UNCHANGED <<phase, snap, persistVars, canvasVars>>

SpecStale == InitStale /\ [][NextStale]_vars

\* saving to a file and loading files, next to a main log of at most
\* MaxLoggedWhileLoading entries
MaxLoggedWhileLoading == 2

InitFile == (\E d \in InitialDatas : InitWith(d)) /\ phase = "free"

NextFile ==
    \/ /\ \/ (historyIndex + 1 < MaxLoggedWhileLoading /\ AddShapeEvent)
          \/ (historyIndex + 1 < MaxLoggedWhileLoading /\ ToolbarClearScreen)
          \/ SelectShapeEvent
          \/ Undo
          \/ BackgroundColorEvent
       /\ UNCHANGED <<phase, snap, persistVars, canvasVars>>
    \/ HandleSave
    \/ LoadEvent

SpecFile == InitFile /\ [][NextFile]_vars

\* the editor next to the store: mounted on a diagram of its own with nothing
\* stored, or mounted with the diagramId of a stored or of a missing diagram, the
\* select request of the mount effect on its way
MaxLoggedWhileStoring == 1

StoredRow(public) ==
    [id |-> 1, data |-> SharedDiagram, owner_id |-> 1, share_id |-> 0, is_public |-> public]

MissingDiagramId == 9

InitStore ==
    /\ \/ InitMounted(PairDiagram, <<>>, <<>>)
       \/ \E public \in BOOLEAN, id \in {1, MissingDiagramId} :
                InitMounted(NoData, << StoredRow(public) >>, << LoadDiagramRequest(id) >>)
    /\ phase = "free"

NextStore ==
    /\ \/ /\ \/ (historyIndex + 1 < MaxLoggedWhileStoring /\ AddShapeEvent)
             \/ Undo
          /\ UNCHANGED persistVars
       \/ AuthEvent
       \/ TogglePublicEvent
       \/ StoreRespondsEvent
    /\ UNCHANGED <<phase, snap, canvasVars>>

SpecStore == InitStore /\ [][NextStore]_vars

\* drawing and erasing with the pointer and the keyboard, on an empty canvas or
\* on one with two strokes
PointerPositions == {[x |-> 10, y |-> 10], [x |-> 20, y |-> 20], [x |-> 31, y |-> 10]}

TwoStrokes ==
    [NoData EXCEPT !.drawings =
        << [id |-> 40, color |-> "#000", width |-> 2,
            points |-> << [x |-> 10, y |-> 10, type |-> "start"],
                          [x |-> 10, y |-> 10, type |-> "end"] >>],
           [id |-> 41, color |-> "#000", width |-> 2,
            points |-> << [x |-> 30, y |-> 30, type |-> "start"],
                          [x |-> 31, y |-> 10, type |-> "point"],
                          [x |-> 31, y |-> 10, type |-> "end"] >>] >>]

MaxStrokesOnCanvas == 1
MaxDrawnOnCanvas == 2

InitCanvas == (\E d \in {NoData, TwoStrokes} : InitWith(d)) /\ phase = "free"

NextCanvas ==
    \/ /\ PointerAway
       /\ ToolbarStartDrawing \/ ToolbarToggleEraser
       /\ UNCHANGED <<phase, snap, persistVars, canvasVars>>
    \/ /\ drawingHistoryIndex < MaxDrawnOnCanvas
       /\ \/ \E p \in PointerPositions : MouseDown(p) \/ MouseMove(p)
          \/ (Len(drawings) < MaxStrokesOnCanvas \/ isEraserActive) /\ MouseUp
    \/ /\ UndoDrawing \/ RedoDrawing
       /\ UNCHANGED <<phase, snap, persistVars, canvasVars>>

SpecCanvas == InitCanvas /\ [][NextCanvas]_vars

\* strokes at any of the pointer positions, each a whole draw gesture, and eraser
\* gestures
StrokeAtEvent ==
    \E p \in PointerPositions, t \in ClockReads :
        DrawingComplete(<< [x |-> p.x, y |-> p.y, type |-> "start"] >>, t)

NextEraser ==
    \/ /\ PointerAway
       /\ ToolbarStartDrawing \/ ToolbarToggleEraser \/ StrokeAtEvent
       /\ UNCHANGED <<phase, snap, persistVars, canvasVars>>
    \/ \E p \in PointerPositions : isEraserActive /\ (MouseDown(p) \/ MouseMove(p))
    \/ isEraserActive /\ MouseUp

SpecEraser == InitCanvas /\ [][NextEraser]_vars

\* strokes and key-downs
NextKeys ==
    \/ /\ ToolbarStartDrawing \/ (Len(drawings) < MaxStrokesWhileDrawing /\ StrokeEvent)
       /\ UNCHANGED <<phase, snap, persistVars, canvasVars>>
    \/ \E n \in KeyNumbers : KeyDown(n)

SpecKeys == Init /\ [][NextKeys]_vars

\* resizing the shapes of the chain diagram
RawSizes == {[w |-> 40, h |-> 70], [w |-> 70, h |-> 40], [w |-> 30, h |-> 20],
             [w |-> 200, h |-> 60]}

NextResize ==
    \/ /\ SelectShapeEvent \/ CanvasClick
       /\ UNCHANGED <<phase, snap, persistVars, canvasVars>>
    \/ \E i \in 1..Len(shapes), raw \in RawSizes : ResizeMove(i, raw.w, raw.h)

SpecResize == InitShared /\ [][NextResize]_vars

InitRoundTrip == (\E d \in InitialDatas : InitWith(d)) /\ phase = "act"

Act == phase = "act" /\ GestureEvent /\ UNCHANGED <<phase, snap, persistVars, canvasVars>>

BeginUndo ==
    /\ phase = "act"
    /\ historyIndex >= 0
    /\ phase' = "undo"
    /\ snap' = <<shapes, connections, drawings>>
    /\ UNCHANGED <<progVars, persistVars, canvasVars, lastOp>>

UndoAll ==
    /\ phase = "undo"
    /\ Undo
    /\ phase' = IF historyIndex' = -1 THEN "redo" ELSE "undo"
    /\ UNCHANGED <<snap, persistVars, canvasVars>>

RedoAll ==
    /\ phase = "redo"
    /\ Redo
    /\ phase' = IF historyIndex' = Len(history) - 1 THEN "done" ELSE "redo"
    /\ UNCHANGED <<snap, persistVars, canvasVars>>

NextRoundTrip == Act \/ BeginUndo \/ UndoAll \/ RedoAll

SpecRoundTrip == InitRoundTrip /\ [][NextRoundTrip]_vars

(***************************************************************************)
(* C1. After N recorded actions from an empty log, N undos followed by N   *)
(* redos give back shapes, connections and drawings exactly as they were   *)
(* right after the N actions.                                              *)
(***************************************************************************)
RoundTripRestores == phase = "done" => <<shapes, connections, drawings>> = snap

RoundTripWitness ==
    /\ phase = "done"
    /\ Len(history) = MaxHistory
    /\ \E i \in 1..Len(history) :
            history[i].type = "DELETE_SHAPE" /\ Len(history[i].data.connections) > 0
    /\ \E i \in 1..Len(history) : history[i].type = "ADD_SHAPE"

(***************************************************************************)
(* C2. With the cursor on an entry, one undo followed at once by one redo  *)
(* leaves shapes, connections and drawings as they were before the undo,   *)
(* also after mutations that recorded nothing.                             *)
(***************************************************************************)
UndoThenRedoIsIdentity ==
    historyIndex >= 0 =>
        LET e == history[historyIndex + 1] IN
        /\ RedoShapes(e, UndoShapes(e, shapes)) = shapes
        /\ RedoConnections(e, UndoConnections(e, connections)) = connections
        /\ RedoDrawings(e, UndoDrawings(e, drawings)) = drawings

(***************************************************************************)
(* C3. Every connection's from and to name shapes that are in the model.   *)
(***************************************************************************)
NoDanglingConnection ==
    \A i \in 1..Len(connections) :
        Has(shapes, connections[i].from) /\ Has(shapes, connections[i].to)

(***************************************************************************)
(* C4. Deleting the selected shape S removes S and exactly the connections *)
(* with an end at S; one undo right after puts back S and each of those    *)
(* connections, unchanged.                                                 *)
(***************************************************************************)
Count(s, x) == Cardinality({i \in 1..Len(s) : s[i] = x})

Elems(s) == {s[i] : i \in 1..Len(s)}

DeleteCascadesAndUndoRestores ==
    [][(ToolbarDelete /\ selectedShape # NULL /\ Has(shapes, selectedShape)) =>
        LET S == selectedShape
            e == history'[historyIndex' + 1]
            undoneShapes == UndoShapes(e, shapes')
            undoneConnections == UndoConnections(e, connections')
        IN  /\ ~Has(shapes', S)
            /\ \A c \in Elems(connections) \cup Elems(connections') :
                    Count(connections', c) =
                        IF c.from = S \/ c.to = S THEN 0 ELSE Count(connections, c)
            /\ Find(shapes, S) \in Elems(undoneShapes)
            /\ \A c \in Elems(connections) \cup Elems(undoneConnections) :
                    Count(undoneConnections, c) = Count(connections, c)
      ]_vars

DeleteCascadeWitness ==
    /\ lastOp.name = "Delete"
    /\ historyIndex = Len(history) - 1
    /\ historyIndex >= 0
    /\ history[Len(history)].type = "DELETE_SHAPE"
    /\ Len(history[Len(history)].data.connections) > 0
    /\ Len(connections) > 0

(***************************************************************************)
(* C5. A record drops every entry after the cursor, appends the new one    *)
(* and moves the cursor onto it, so nothing is left to redo.               *)
(***************************************************************************)
RecordTruncatesRedo ==
    [][(history' # history /\ Len(history') > 0) =>
        /\ history' = Append(SubSeq(history, 1, historyIndex + 1), history'[Len(history')])
        /\ historyIndex' = historyIndex + 1
        /\ historyIndex' = Len(history') - 1
        /\ ~CanRedo'
      ]_vars

RecordAfterUndoWitness ==
    /\ lastOp.cut
    /\ historyIndex = Len(history) - 1
    /\ Len(history) >= 2

(***************************************************************************)
(* C6. undo at cursor -1 changes nothing; at cursor i it runs the undo of  *)
(* entry i, moves the cursor to i - 1 and leaves the list of entries alone.*)
(***************************************************************************)
UndoContract ==
    [][Undo =>
        IF historyIndex = -1
        THEN UNCHANGED progVars
        ELSE LET e == history[historyIndex + 1] IN
             /\ history' = history
             /\ historyIndex' = historyIndex - 1
             /\ shapes' = UndoShapes(e, shapes)
             /\ connections' = UndoConnections(e, connections)
             /\ drawings' = UndoDrawings(e, drawings)
             /\ UNCHANGED <<selectionVars, modeVars, drawLogVars>>
      ]_vars

UndoWitness ==
    /\ lastOp.name = "Undo"
    /\ lastOp.id = 1
    /\ historyIndex = 0
    /\ Len(history) >= 2

(***************************************************************************)
(* C7. redo with the cursor on the last entry, or with no entry, changes   *)
(* nothing; at cursor i below that it runs the redo of entry i + 1, moves  *)
(* the cursor to i + 1 and leaves the list of entries alone.               *)
(***************************************************************************)
RedoContract ==
    [][Redo =>
        IF historyIndex = Len(history) - 1
        THEN UNCHANGED progVars
        ELSE LET e == history[historyIndex + 2] IN
             /\ history' = history
             /\ historyIndex' = historyIndex + 1
             /\ shapes' = RedoShapes(e, shapes)
             /\ connections' = RedoConnections(e, connections)
             /\ drawings' = RedoDrawings(e, drawings)
             /\ UNCHANGED <<selectionVars, modeVars, drawLogVars>>
      ]_vars

RedoWitness ==
    /\ lastOp.name = "Redo"
    /\ lastOp.id = 1
    /\ historyIndex = 1
    /\ Len(history) >= 3

(***************************************************************************)
(* C8. In connect mode with pending first shape A, a click on another      *)
(* shape B appends one connection A -> B, solid with an end arrow, records *)
(* one ADD_CONNECTION entry, clears the pending shape and leaves connect   *)
(* mode.                                                                   *)
(***************************************************************************)
ConnectGestureCompletes ==
    [][\A B \in IdsOf(shapes) :
        (SelectShape(B) /\ isConnecting /\ connectionStart # NULL /\ connectionStart # B) =>
            LET c == connections'[Len(connections')]
                top == history'[Len(history')]
            IN  /\ Len(connections') = Len(connections) + 1
                /\ SubSeq(connections', 1, Len(connections)) = connections
                /\ c.from = connectionStart
                /\ c.to = B
                /\ c.lineStyle = "solid"
                /\ c.arrowStyle = "end"
                /\ Len(history') = historyIndex + 2
                /\ SubSeq(history', 1, historyIndex + 1) = SubSeq(history, 1, historyIndex + 1)
                /\ top.type = "ADD_CONNECTION"
                /\ top.data = c
                /\ historyIndex' = historyIndex + 1
                /\ connectionStart' = NULL
                /\ ~isConnecting'
                /\ shapes' = shapes
      ]_vars

ConnectGestureWitness ==
    /\ lastOp.name = "SelectShape"
    /\ lastOp.start # NULL
    /\ lastOp.start # lastOp.id
    /\ ~isConnecting
    /\ connectionStart = NULL
    /\ historyIndex = Len(history) - 1
    /\ history[Len(history)].type = "ADD_CONNECTION"

(***************************************************************************)
(* C9. Leaving connect mode by the connect button or by a click on the     *)
(* empty canvas drops the pending first shape, connect mode is always      *)
(* entered with no pending shape, and a click on a shape with no pending   *)
(* shape creates no connection.                                            *)
(***************************************************************************)
CancelDiscardsPending ==
    [][/\ ((CanvasClick \/ ToolbarStartConnection) /\ isConnecting) =>
                (~isConnecting' /\ connectionStart' = NULL)
       /\ (ToolbarStartConnection /\ ~isConnecting) =>
                (isConnecting' /\ connectionStart' = NULL)
       /\ \A id \in IdsOf(shapes) :
            (SelectShape(id) /\ connectionStart = NULL) => connections' = connections
      ]_vars

CancelWitness ==
    /\ lastOp.name \in {"CanvasClick", "StartConnection"}
    /\ lastOp.start # NULL
    /\ ~isConnecting
    /\ connectionStart = NULL

(***************************************************************************)
(* C10. In connect mode with pending first shape A, a click on A changes   *)
(* nothing: no connection, no entry, A still pending, connect mode on.     *)
(***************************************************************************)
SelectSameShapeIsNoOp ==
    [][\A A \in IdsOf(shapes) :
        (SelectShape(A) /\ isConnecting /\ connectionStart = A) => UNCHANGED progVars
      ]_vars

SelectSameShapeWitness ==
    /\ lastOp.name = "SelectShape"
    /\ lastOp.id # NULL
    /\ lastOp.start = lastOp.id
    /\ isConnecting
    /\ connectionStart = lastOp.id

(***************************************************************************)
(* C11. At most one of selectedShape and selectedConnection is set, under  *)
(* every sequence of shape select, connection select, delete, canvas       *)
(* click, clear screen, undo and redo.                                     *)
(***************************************************************************)
SelectionExclusive == selectedShape = NULL \/ selectedConnection = NULL

\* a connection was picked while it and its end shapes are in the diagram
ConnectionPickedWitness ==
    /\ lastOp.name = "ConnectionSelect"
    /\ selectedConnection # NULL
    /\ Has(connections, selectedConnection)
    /\ Len(shapes) = 2

(***************************************************************************)
(* C12. The two logs are independent: a step that changes the main history *)
(* or its cursor (record, undo, redo) leaves the drawing history and its   *)
(* cursor alone, and a step that changes the drawing history or its cursor *)
(* (stroke, erase, drawing undo, drawing redo) leaves the main history,    *)
(* its cursor, shapes and connections alone.                               *)
(***************************************************************************)
LogsIndependent ==
    [][ /\ (mainLogVars' # mainLogVars => UNCHANGED drawLogVars)
        /\ (drawLogVars' # drawLogVars => UNCHANGED <<mainLogVars, shapes, connections>>)
      ]_vars

\* a drawing redo was taken after a main record and a main undo
BothLogsUsedWitness ==
    /\ lastOp.name = "RedoDrawing"
    /\ drawingHistoryIndex > 0
    /\ drawingHistoryIndex = Len(drawingHistory) - 1
    /\ Len(history) > 0
    /\ historyIndex < Len(history) - 1

(***************************************************************************)
(* C13. Clear screen empties shapes, connections and drawings and appends  *)
(* exactly one main-history entry; one undo right after it gives back      *)
(* shapes, connections, drawings, currentDiagramId, shareUrl and isPublic  *)
(* exactly as they were before the clear.                                  *)
(***************************************************************************)
ClearScreenIsOneUndoableEntry ==
    [][ ToolbarClearScreen =>
            /\ shapes' = <<>> /\ connections' = <<>> /\ drawings' = <<>>
            /\ historyIndex' = historyIndex + 1
            /\ Len(history') = historyIndex + 2
            /\ SubSeq(history', 1, historyIndex + 1) = SubSeq(history, 1, historyIndex + 1)
            /\ LET e == history'[historyIndex' + 1] IN
                /\ UndoShapes(e, shapes') = shapes
                /\ UndoConnections(e, connections') = connections
                /\ UndoDrawings(e, drawings') = drawings
                /\ UndoCurrentDiagramId(e, currentDiagramId') = currentDiagramId
                /\ UndoShareUrl(e, shareUrl') = shareUrl
                /\ UndoIsPublic(e, isPublic') = isPublic
      ]_vars

\* a saved, public diagram with shapes, a connection and a stroke was cleared
ClearSavedDiagramWitness ==
    /\ lastOp.name = "ClearScreen"
    /\ historyIndex >= 0
    /\ history[historyIndex + 1].type = "CLEAR_SCREEN"
    /\ history[historyIndex + 1].data.currentDiagramId # NULL
    /\ history[historyIndex + 1].data.isPublic
    /\ history[historyIndex + 1].data.shareUrl # ""
    /\ Len(history[historyIndex + 1].data.shapes) > 0
    /\ Len(history[historyIndex + 1].data.connections) > 0
    /\ Len(history[historyIndex + 1].data.drawings) > 0
    /\ currentDiagramId = NULL

(***************************************************************************)
(* C14. Add shape, a completed connect gesture, a connection style change, *)
(* a shape colour change, a delete of the selected shape or connection and *)
(* clear screen each append exactly one entry to the main history when     *)
(* they take effect (the cursor advances by one) and never more than one;  *)
(* a position update of a drag, a selection and a mode toggle append none. *)
(***************************************************************************)
OneAppended ==
    /\ historyIndex' = historyIndex + 1
    /\ Len(history') = historyIndex + 2
    /\ SubSeq(history', 1, historyIndex + 1) = SubSeq(history, 1, historyIndex + 1)

RecordingOps == {"AddShape", "SelectShape", "ConnectionStyleChange", "ShapeColorChange",
                 "Delete", "ClearScreen"}

SilentOps == {"Drag", "ConnectionSelect", "StartConnection"}

OneEntryPerOperation ==
    [][ /\ (lastOp'.name \in RecordingOps /\ modelVars' # modelVars) => OneAppended
        /\ lastOp'.name \in RecordingOps => (OneAppended \/ UNCHANGED mainLogVars)
        /\ lastOp'.name = "AddShape" => OneAppended
        /\ lastOp'.name = "ClearScreen" => OneAppended
        /\ lastOp'.name \in SilentOps => UNCHANGED mainLogVars
      ]_vars

\* a colour change was recorded below the end of the log, on a shape that was dragged
RecordAfterDragWitness ==
    /\ lastOp.name = "ShapeColorChange"
    /\ lastOp.cut
    /\ \E i \in 1..Len(shapes) :
            /\ shapes[i].id = lastOp.id
            /\ shapes[i].position \in DragPositions
            /\ shapes[i].borderColor \in PickColors

(***************************************************************************)
(* C15. A style change on an existing connection sets that connection's    *)
(* line and arrow style and records one UPDATE_CONNECTION_STYLE entry; the *)
(* entry's undo gives back exactly the styles the connection had, its redo *)
(* applies exactly the new ones, and no other connection is touched.       *)
(***************************************************************************)
StyleChangeIsExactlyInvertible ==
    [][ \A id \in IdsOf(connections), ls \in PickLineStyles, as \in PickArrowStyles :
            ConnectionStyleChange(id, ls, as) =>
                LET k == CHOOSE i \in 1..Len(connections) :
                            connections[i].id = id /\ \A j \in 1..(i - 1) : connections[j].id # id
                    e == history'[historyIndex' + 1]
                    undone == UndoConnections(e, connections')
                IN  /\ Len(connections') = Len(connections)
                    /\ connections'[k] = [connections[k] EXCEPT !.lineStyle = ls,
                                                                !.arrowStyle = as]
                    /\ \A j \in 1..Len(connections) : j # k => connections'[j] = connections[j]
                    /\ OneAppended
                    /\ e.type = "UPDATE_CONNECTION_STYLE"
                    /\ undone = connections
                    /\ RedoConnections(e, undone) = connections'
                    /\ UndoShapes(e, shapes') = shapes'
      ]_vars

(***************************************************************************)
(* C16. A drag, text edit, resize, border-width change or colour change of *)
(* a shape id that is not in shapes, a style change of a connection id     *)
(* that is not in connections, and a delete whose selection names nothing, *)
(* leave shapes and connections unchanged and add no history entry.        *)
(***************************************************************************)
ShapeIdOps == {"Drag", "TextEdit", "ResizeShape", "BorderWidthChange", "ShapeColorChange"}

StaleSelection ==
    \/ selectedShape # NULL /\ ~Has(shapes, selectedShape)
    \/ selectedShape = NULL /\ selectedConnection # NULL
            /\ ~Has(connections, selectedConnection)

AbsentIdIsInert ==
    [][ ( \/ lastOp'.name \in ShapeIdOps /\ ~Has(shapes, lastOp'.id)
          \/ lastOp'.name = "ConnectionStyleChange" /\ ~Has(connections, lastOp'.id)
          \/ lastOp'.name = "Delete" /\ StaleSelection )
        => UNCHANGED <<shapes, connections, mainLogVars>>
      ]_vars

\* a border-width change named a shape that an undo had taken out, others being there
StaleCallWitness ==
    /\ lastOp.name = "BorderWidthChange"
    /\ ~Has(shapes, lastOp.id)
    /\ Len(shapes) > 0
    /\ \E i \in 1..Len(history) :
            history[i].type = "ADD_SHAPE" /\ history[i].data.id = lastOp.id

(***************************************************************************)
(* C17. A connection whose from or to is not the id of a shape in the      *)
(* current shape list renders as nothing, and every other connection       *)
(* renders as a path; no render fails.                                     *)
(***************************************************************************)
DanglingRendersNothing ==
    \A i \in 1..Len(connections) :
        LET r == ConnectionRender(connections[i], shapes) IN
            /\ r.kind \in {"null", "svg"}
            /\ r.kind = "null" <=>
                    (connections[i].from \notin IdsOf(shapes)
                        \/ connections[i].to \notin IdsOf(shapes))

\* a connection whose end shape is there and whose start shape is gone
HalfDanglingWitness ==
    \E i \in 1..Len(connections) :
        /\ connections[i].to \in IdsOf(shapes)
        /\ connections[i].from \notin IdsOf(shapes)
        /\ ConnectionRender(connections[i], shapes).kind = "null"

(***************************************************************************)
(* C18. Loading the file that the last save produced gives the shapes,     *)
(* connections and drawings that were saved; loading a JSON object that    *)
(* lacks one of the three lists sets that list to empty and takes the      *)
(* lists it has.                                                           *)
(***************************************************************************)
ListOf(key) ==
    CASE key = "shapes" -> shapes
      [] key = "connections" -> connections
      [] OTHER -> drawings

IsObjectFile(k) ==
    k \in 1..Len(OtherFiles) /\ OtherFiles[k].kind = "json"
        /\ OtherFiles[k].value.type = "object"

FileRoundTrip ==
    lastOp.name = "Load" =>
        /\ lastOp.id = 0 =>
                /\ shapes = snap.shapes
                /\ connections = snap.connections
                /\ drawings = snap.drawings
        /\ IsObjectFile(lastOp.id) =>
                \A key \in DiagramKeys :
                    LET members == OtherFiles[lastOp.id].value.members IN
                        ListOf(key) = IF key \in DOMAIN members THEN members[key] ELSE <<>>

\* a saved diagram with shapes, a connection and a drawing has been loaded back
SavedFileLoadedWitness ==
    /\ lastOp.name = "Load"
    /\ lastOp.id = 0
    /\ Len(shapes) > 0 /\ Len(connections) > 0 /\ Len(drawings) > 0
    /\ notice = ""

(***************************************************************************)
(* C19. Loading a file that is not JSON, or whose JSON is a number, a      *)
(* string, an array or null, leaves shapes, connections, drawings and the  *)
(* main history as they were and shows a notice.                           *)
(***************************************************************************)
IsInvalidFile(k) == k \in 1..Len(OtherFiles) /\ ~IsObjectFile(k)

InvalidFileIsRejected ==
    [][ (lastOp'.name = "Load" /\ IsInvalidFile(lastOp'.id))
            => /\ UNCHANGED <<shapes, connections, drawings, mainLogVars>>
               /\ notice' = LoadFailedNotice
      ]_vars

(***************************************************************************)
(* C20. After the file of the last save is loaded, backgroundColor is the  *)
(* background colour the diagram had when it was saved.                    *)
(***************************************************************************)
LoadRestoresBackground ==
    (lastOp.name = "Load" /\ lastOp.id = 0) => backgroundColor = snap.backgroundColor

(***************************************************************************)
(* C21. When the store answers a load, a save or a visibility request with *)
(* an error, shapes, connections, drawings, currentDiagramId, shareUrl and *)
(* isPublic stay as they were and a notice is shown; after a failed save   *)
(* or visibility request the request can be made again.                    *)
(***************************************************************************)
StoreFailures == {"LoadFails", "SaveFails", "UpdateFails"}

FailureNotices ==
    {"Failed to load diagram", "Failed to save diagram. Please try again.",
     "Failed to update diagram visibility"}

RetryIsPossible ==
    (lastOp.name \in {"SaveFails", "UpdateFails"} /\ user # NULL /\ uuids < MaxUuids)
        => ENABLED TogglePublicEvent

IsWrite(r) == r.op \in {"insert", "update"}

OneRequestInFlight == Len(SelectSeq(inflight, IsWrite)) <= 1

(***************************************************************************)
(* C23. The pointer-up that ends a draw gesture (draw mode, eraser off)    *)
(* appends exactly one path to drawings: its points are the down position  *)
(* tagged start, the move positions tagged point in the order they came,   *)
(* and an end point at the last of these positions; its colour is black    *)
(* and its width 2; exactly one drawing-history entry is put after the     *)
(* cursor; no path in drawings has zero points.                            *)
(***************************************************************************)
GesturePoints(positions) ==
    [i \in 1..(Len(positions) + 1) |->
        IF i = 1 THEN [x |-> positions[1].x, y |-> positions[1].y, type |-> "start"]
        ELSE IF i <= Len(positions)
        THEN [x |-> positions[i].x, y |-> positions[i].y, type |-> "point"]
        ELSE [x |-> positions[i - 1].x, y |-> positions[i - 1].y, type |-> "end"]]

DrawGestureEmitsOnePath ==
    /\ [][ (isDrawingActive /\ ~isEraserActive /\ ~isDrawingActive')
                => LET path == drawings'[Len(drawings')] IN
                    /\ Len(drawings') = Len(drawings) + 1
                    /\ SubSeq(drawings', 1, Len(drawings)) = drawings
                    /\ path.points = GesturePoints(snap)
                    /\ path.color = "#000" /\ path.width = 2
                    /\ drawingHistoryIndex' = drawingHistoryIndex + 1
                    /\ Len(drawingHistory') = drawingHistoryIndex + 2
                    /\ drawingHistory'[Len(drawingHistory')] = drawings'
                    /\ SubSeq(drawingHistory', 1, drawingHistoryIndex + 1)
                            = SubSeq(drawingHistory, 1, drawingHistoryIndex + 1)
          ]_vars
    /\ [](\A i \in 1..Len(drawings) : Len(drawings[i].points) > 0)

\* a gesture with two moves has just been finished
LongStrokeWitness ==
    /\ lastOp.name = "DrawingComplete"
    /\ Len(drawings) > 0
    /\ Len(drawings[Len(drawings)].points) = 4
    /\ drawings[Len(drawings)].points[2].type = "point"

(***************************************************************************)
(* C24. An eraser pointer event at (x, y) removes from drawings exactly    *)
(* the paths that have not been erased before and have a point (px, py)    *)
(* with |px - x| <= 10 and |py - y| <= 10; every other path is kept.       *)
(***************************************************************************)
InEraserBox(path, p) ==
    \E k \in 1..Len(path.points) :
        Abs(path.points[k].x - p.x) <= 10 /\ Abs(path.points[k].y - p.y) <= 10

ErasedBefore(path) == \E k \in 1..Len(erasedPaths) : erasedPaths[k] = path.id

ErasedIffInBox ==
    [][ lastOp'.name = "ErasePointer"
            => LET Kept(path) == ~(~ErasedBefore(path) /\ InEraserBox(path, snap'[1]))
               IN  drawings' = SelectSeq(drawings, Kept)
      ]_vars

(***************************************************************************)
(* C25. An eraser pointer event that hits at least one eligible path       *)
(* removes every eligible path in that one event and puts exactly one      *)
(* entry after the drawing-history cursor; an eraser event that hits no    *)
(* eligible path changes neither drawings nor the drawing history nor its  *)
(* cursor.                                                                 *)
(***************************************************************************)
Eligible(path, p) == ~ErasedBefore(path) /\ InEraserBox(path, p)

EraserEventIsOneBatch ==
    [][ lastOp'.name = "ErasePointer"
            => LET p == snap'[1] IN
               IF \E i \in 1..Len(drawings) : Eligible(drawings[i], p) THEN
                    /\ \A j \in 1..Len(drawings') : ~Eligible(drawings'[j], p)
                    /\ Len(drawings') < Len(drawings)
                    /\ drawingHistoryIndex' = drawingHistoryIndex + 1
                    /\ Len(drawingHistory') = drawingHistoryIndex + 2
                    /\ drawingHistory'[Len(drawingHistory')] = drawings'
                    /\ SubSeq(drawingHistory', 1, drawingHistoryIndex + 1)
                            = SubSeq(drawingHistory, 1, drawingHistoryIndex + 1)
               ELSE UNCHANGED <<drawings, drawingHistory, drawingHistoryIndex>>
      ]_vars

\* one eraser event has removed two strokes and left one drawing-history entry
TwoErasedAtOnceWitness ==
    /\ lastOp.name = "ErasePointer"
    /\ Len(erasedPaths) = 2
    /\ drawings = <<>>
    /\ drawingHistoryIndex = 1

(***************************************************************************)
(* C26. A resize event with raw width w and height h stores, in the shape  *)
(* being resized, width = height = max(50, max(w, h)) when the shape is a  *)
(* square, circle or diamond, and width = max(50, w), height = max(50, h)  *)
(* otherwise; so its width and height are at least 50, and equal for the   *)
(* aspect-locked variants.                                                 *)
(***************************************************************************)
ResizeClamps ==
    lastOp.name = "ResizeShape" =>
        LET shape == shapes[snap.index]
            w == snap.w
            h == snap.h
        IN  /\ shape.type \in {"square", "circle", "diamond"} =>
                    /\ shape.width = Max(50, Max(w, h))
                    /\ shape.height = Max(50, Max(w, h))
                    /\ shape.width = shape.height
            /\ shape.type \notin {"square", "circle", "diamond"} =>
                    /\ shape.width = Max(50, w)
                    /\ shape.height = Max(50, h)
            /\ shape.width >= 50 /\ shape.height >= 50

\* the circle has been resized with raw 40 x 70 and is 70 x 70
CircleResizedWitness ==
    /\ lastOp.name = "ResizeShape"
    /\ snap.w = 40 /\ snap.h = 70
    /\ shapes[snap.index].type = "circle"
    /\ shapes[snap.index].width = 70 /\ shapes[snap.index].height = 70

(***************************************************************************)
(* C27. A key-down of the Z key with Ctrl or Cmd held does what            *)
(* drawing-undo does when Shift is not held and what drawing-redo does     *)
(* when Shift is held.                                                     *)
(***************************************************************************)
IsZKey(e) == e.key \in {"z", "Z"}

DrawingUndoStep ==
    IF drawingHistoryIndex > 0
    THEN /\ drawingHistoryIndex' = drawingHistoryIndex - 1
         /\ drawings' = drawingHistory[drawingHistoryIndex]
    ELSE UNCHANGED <<drawingHistoryIndex, drawings>>

DrawingRedoStep ==
    IF drawingHistoryIndex < Len(drawingHistory) - 1
    THEN /\ drawingHistoryIndex' = drawingHistoryIndex + 1
         /\ drawings' = drawingHistory[drawingHistoryIndex + 2]
    ELSE UNCHANGED <<drawingHistoryIndex, drawings>>

ShortcutsUndoAndRedo ==
    [][ lastOp'.name = "KeyDown"
            => LET e == KeyEvent(lastOp'.id) IN
               (IsZKey(e) /\ (e.ctrlKey \/ e.metaKey))
                    => IF e.shiftKey THEN DrawingRedoStep ELSE DrawingUndoStep
      ]_vars

(* ------------------------- export bounding box ------------------------- *)
Min(a, b) == IF a <= b THEN a ELSE b

\* stands for the float Infinity: larger than every coordinate of the model
Infinity == 1000000

ExportWidth(shape) ==
    IF shape.width # 0 THEN shape.width ELSE IF shape.type = "text" THEN 200 ELSE 128

ExportHeight(shape) ==
    IF shape.height # 0 THEN shape.height
    ELSE IF shape.type = "text" THEN 100 ELSE IF shape.type = "rectangle" THEN 80 ELSE 128

NoExtent == [minX |-> Infinity, minY |-> Infinity, maxX |-> -Infinity, maxY |-> -Infinity]

IncludePoint(b, p) ==
    [minX |-> Min(b.minX, p.x), minY |-> Min(b.minY, p.y),
     maxX |-> Max(b.maxX, p.x), maxY |-> Max(b.maxY, p.y)]

IncludeShapeWithoutEndPoint(b, shape) ==
    [minX |-> Min(b.minX, shape.position.x),
     minY |-> Min(b.minY, shape.position.y),
     maxX |-> Max(b.maxX, shape.position.x + ExportWidth(shape)),
     maxY |-> Max(b.maxY, shape.position.y + ExportHeight(shape))]

\* the body of shapes.forEach
IncludeShape(b, shape) ==
    LET c == [minX |-> Min(b.minX, shape.position.x),
              minY |-> Min(b.minY, shape.position.y),
              maxX |-> Max(b.maxX, shape.position.x + ExportWidth(shape)),
              maxY |-> Max(b.maxY, shape.position.y + ExportHeight(shape))]
    IN  IF shape.type = "line" /\ "endPoint" \in DOMAIN shape
        THEN IncludePoint(c, shape.endPoint)
        ELSE c

RECURSIVE IncludeShapes(_, _, _)
IncludeShapes(b, list, i) ==
    IF i > Len(list) THEN b ELSE IncludeShapes(IncludeShape(b, list[i]), list, i + 1)

RECURSIVE IncludePoints(_, _, _)
IncludePoints(b, points, i) ==
    IF i > Len(points) THEN b ELSE IncludePoints(IncludePoint(b, points[i]), points, i + 1)

RECURSIVE IncludeDrawings(_, _, _)
IncludeDrawings(b, list, i) ==
    IF i > Len(list) THEN b
    ELSE IncludeDrawings(IncludePoints(b, list[i].points, 1), list, i + 1)

calculateBoundingBox ==
    LET b == IncludeDrawings(IncludeShapes(NoExtent, shapes, 1), drawings, 1)
        padding == 50
    IN  [x |-> Max(0, b.minX - padding),
         y |-> Max(0, b.minY - padding),
         width |-> Min(b.maxX - b.minX + padding * 2, 5000),
         height |-> Min(b.maxY - b.minY + padding * 2, 5000)]

\* the Export menu entry: the box handed to html2canvas is kept in snap
HandleExport ==
    /\ snap' = calculateBoundingBox
    /\ lastOp' = Op("Export", NULL)
    /\ UNCHANGED <<progVars, persistVars, phase, canvasVars>>

\* a text, a line and a circle, and one stroke
ExportDiagram ==
    [shapes |-> << NewShape("text", [x |-> 100, y |-> 100], 20, 0),
                   NewShape("line", [x |-> 60, y |-> 300], 21, 1),
                   NewShape("circle", [x |-> 400, y |-> 100], 22, 2) >>,
     connections |-> << >>,
     drawings |-> << [id |-> 40, color |-> "#000", width |-> 2,
                      points |-> << [x |-> 30, y |-> 200, type |-> "start"],
                                    [x |-> 45, y |-> 520, type |-> "point"],
                                    [x |-> 45, y |-> 520, type |-> "end"] >>] >>]

ExportPositions == {[x |-> -30, y |-> 20], [x |-> 20, y |-> -30], [x |-> 700, y |-> 650],
                    [x |-> 6000, y |-> 40]}

ExportSizes == {[w |-> 5200, h |-> 60]}

ExportDiagrams == {ExportDiagram, TwoStrokes,
                   [ExportDiagram EXCEPT !.drawings = << >>],
                   [ExportDiagram EXCEPT !.drawings = << >>,
                                         !.shapes = SubSeq(ExportDiagram.shapes, 2, 2)]}

InitExport == (\E d \in ExportDiagrams : InitWith(d)) /\ phase = "free"

\* moving shapes and line ends, resizing, exporting; the box of an export is
\* forgotten at the next event
NextExport ==
    \/ /\ \/ SelectShapeEvent
          \/ \E id \in IdsOf(shapes), position \in ExportPositions, isEndPoint \in BOOLEAN :
                (isEndPoint => Find(shapes, id).type = "line") /\ Drag(id, position, isEndPoint)
       /\ snap' = << >>
       /\ UNCHANGED <<phase, persistVars, canvasVars>>
    \/ \E i \in 1..Len(shapes), raw \in ExportSizes : ResizeMove(i, raw.w, raw.h)
    \/ HandleExport

SpecExport == InitExport /\ [][NextExport]_vars

(***************************************************************************)
(* C28. The box an export uses is the padded union of all extents: with    *)
(* minX, maxX, minY, maxY the least and greatest coordinates among shape   *)
(* positions, positions plus effective size, line end points and drawing   *)
(* points, x = max(0, minX - 50), y = max(0, minY - 50),                   *)
(* width = min(maxX - minX + 100, 5000) and                                *)
(* height = min(maxY - minY + 100, 5000), whenever the diagram is not      *)
(* empty.                                                                  *)
(***************************************************************************)
Least(S) == CHOOSE m \in S : \A n \in S : m <= n
Greatest(S) == CHOOSE m \in S : \A n \in S : m >= n

LineEnds == {shapes[i].endPoint : i \in {j \in 1..Len(shapes) :
                shapes[j].type = "line" /\ "endPoint" \in DOMAIN shapes[j]}}
DrawingPoints == UNION {{drawings[i].points[k] : k \in 1..Len(drawings[i].points)} :
                            i \in 1..Len(drawings)}

ExtentXs == {shapes[i].position.x : i \in 1..Len(shapes)}
            \cup {shapes[i].position.x + ExportWidth(shapes[i]) : i \in 1..Len(shapes)}
            \cup {p.x : p \in LineEnds \cup DrawingPoints}
ExtentYs == {shapes[i].position.y : i \in 1..Len(shapes)}
            \cup {shapes[i].position.y + ExportHeight(shapes[i]) : i \in 1..Len(shapes)}
            \cup {p.y : p \in LineEnds \cup DrawingPoints}

ExportBoxIsPaddedUnion ==
    (lastOp.name = "Export" /\ (shapes # <<>> \/ drawings # <<>>))
        => /\ snap.x = Max(0, Least(ExtentXs) - 50)
           /\ snap.y = Max(0, Least(ExtentYs) - 50)
           /\ snap.width = Min(Greatest(ExtentXs) - Least(ExtentXs) + 100, 5000)
           /\ snap.height = Min(Greatest(ExtentYs) - Least(ExtentYs) + 100, 5000)

\* an export where a dragged line end is the lowest extent, a shape sits at a
\* negative x, and the width is capped
LineEndExportedWitness ==
    /\ lastOp.name = "Export"
    /\ \E p \in LineEnds : p.y = Greatest(ExtentYs) /\ p.y > 520
    /\ Least(ExtentXs) < 0
    /\ snap.x = 0
    /\ snap.width = 5000
    /\ snap.height < 5000

(* --------------------- connector end points ---------------------------- *)
\* A point of the connector is kept exact: the record stands for
\*   (center.x + num * u / (den * sqrt(root)), center.y + num * v / (den * sqrt(root))).
\* The direction (u, v) from the centre to the other point gives
\* cos = u / sqrt(u^2 + v^2) and sin = v / sqrt(u^2 + v^2); Math.atan2(0, 0) is 0,
\* the direction (1, 0).
DirectionOf(center, point) ==
    IF point.x = center.x /\ point.y = center.y
    THEN [u |-> 1, v |-> 0]
    ELSE [u |-> point.x - center.x, v |-> point.y - center.y]

PointAt(center, num, dir, den, root) ==
    [center |-> center, num |-> num, u |-> dir.u, v |-> dir.v, den |-> den, root |-> root]

getIntersectionPoint(shape, point) ==
    LET center == getCenterPoint(shape)
        width == WidthOrDefault(shape)
        height == HeightOrDefault(shape)
        dir == DirectionOf(center, point)
    IN  IF shape.type = "circle" THEN
            \* center + radius * (cos, sin), radius = width / 2
            PointAt(center, width, dir, 2, dir.u * dir.u + dir.v * dir.v)
        ELSE IF shape.type = "diamond" THEN
            \* tanAngle = |v| / |u|, halfHeight / halfWidth = height / width
            IF dir.u # 0 /\ Abs(dir.v) * width <= Abs(dir.u) * height
            THEN PointAt(center, width, dir, 2 * Abs(dir.u), 1)
            ELSE PointAt(center, height, dir, 2 * Abs(dir.v), 1)
        ELSE
            \* dx = |cos|, dy = |sin|
            IF Abs(dir.u) * height <= Abs(dir.v) * width
            THEN PointAt(center, height, dir, 2 * Abs(dir.v), 1)
            ELSE PointAt(center, width, dir, 2 * Abs(dir.u), 1)

\* the two end points of the path, the same for straight and curved lines
getPath(connection, shapeList) ==
    LET fromShape == Find(shapeList, connection.from)
        toShape == Find(shapeList, connection.to)
        from == getCenterPoint(fromShape)
        to == getCenterPoint(toShape)
    IN  [fromIntersect |-> getIntersectionPoint(fromShape, to),
         toIntersect |-> getIntersectionPoint(toShape, from)]

PathPositions == {[x |-> 100, y |-> 100], [x |-> 400, y |-> 100], [x |-> 400, y |-> 400],
                  [x |-> 700, y |-> 100], [x |-> 100, y |-> 500]}

\* the shared diagram with its shapes moved about and resized
NextPath ==
    \/ /\ \/ SelectShapeEvent
          \/ \E id \in IdsOf(shapes), position \in PathPositions : Drag(id, position, FALSE)
       /\ UNCHANGED <<phase, snap, persistVars, canvasVars>>
    \/ \E i \in 1..Len(shapes), raw \in RawSizes : ResizeMove(i, raw.w, raw.h)

SpecPath == InitShared /\ [][NextPath]_vars

(***************************************************************************)
(* C29. Both end points of the path of every connection whose two shapes   *)
(* exist lie on the silhouette of their shape: the circle of radius        *)
(* width / 2, the diamond through the middles of the four sides, or the    *)
(* box, each around the shape's centre.                                    *)
(***************************************************************************)
IsFinitePoint(p) == p.den # 0 /\ p.root > 0

RECURSIVE Gcd(_, _)
Gcd(a, b) == IF b = 0 THEN a ELSE Gcd(b, a % b)

\* (2 * num)^2 * (u^2 + v^2) = (width * den)^2 * root, in lowest terms
OnCircle(width, p) ==
    LET q == p.u * p.u + p.v * p.v
        g == Gcd(2 * p.num, width * p.den)
        a == (2 * p.num) \div g
        b == (width * p.den) \div g
    IN  /\ p.root % (a * a) = 0
        /\ q % (b * b) = 0
        /\ p.root \div (a * a) = q \div (b * b)

OnSilhouette(shape, p) ==
    LET width == WidthOrDefault(shape)
        height == HeightOrDefault(shape)
    IN  /\ IsFinitePoint(p)
        /\ p.center = getCenterPoint(shape)
        /\ IF shape.type = "circle" THEN OnCircle(width, p)
           ELSE IF shape.type = "diamond" THEN
                /\ p.root = 1
                /\ 2 * p.num * Abs(p.u) * height + 2 * p.num * Abs(p.v) * width
                        = width * height * p.den
           ELSE /\ p.root = 1
                /\ 2 * p.num * Abs(p.u) <= width * p.den
                /\ 2 * p.num * Abs(p.v) <= height * p.den
                /\ \/ 2 * p.num * Abs(p.u) = width * p.den
                   \/ 2 * p.num * Abs(p.v) = height * p.den

EndPointsOnSilhouette ==
    \A i \in 1..Len(connections) :
        LET c == connections[i] IN
        (Has(shapes, c.from) /\ Has(shapes, c.to))
            => /\ OnSilhouette(Find(shapes, c.from), getPath(c, shapes).fromIntersect)
               /\ OnSilhouette(Find(shapes, c.to), getPath(c, shapes).toIntersect)

(***************************************************************************)
(* C30. For every shape of positive width and height, the boundary         *)
(* intersection toward the shape's own centre is a finite point, and it is *)
(* the centre of the shape.                                                *)
(***************************************************************************)
IsCenterOf(shape, p) ==
    p.center = getCenterPoint(shape) /\ (p.num = 0 \/ (p.u = 0 /\ p.v = 0))

OwnCentreYieldsCentre ==
    \A i \in 1..Len(shapes) :
        (shapes[i].width > 0 /\ shapes[i].height > 0)
            => LET p == getIntersectionPoint(shapes[i], getCenterPoint(shapes[i])) IN
               IsFinitePoint(p) /\ IsCenterOf(shapes[i], p)

(* ----------------- shapes that carry no width and height --------------- *)
\* a diagram handed to the editor (shared, or written by another tool) whose
\* shapes have no width and no height; 0 stands for the absent member
WithoutSize(shape) == [shape EXCEPT !.width = 0, !.height = 0]

SizelessDiagram ==
    [shapes |-> << WithoutSize(NewShape("text", [x |-> 100, y |-> 100], 20, 0)),
                   WithoutSize(NewShape("rectangle", [x |-> 400, y |-> 100], 21, 1)),
                   WithoutSize(NewShape("circle", [x |-> 700, y |-> 100], 22, 2)) >>,
     connections |-> << NewConnection(20, 21, 23), NewConnection(21, 22, 24) >>,
     drawings |-> << >>]

InitCentre == InitWith(SizelessDiagram) /\ phase = "free"

SpecCentre == InitCentre /\ [][NextPath]_vars

(***************************************************************************)
(* C31. The centre the connector geometry takes for a shape with no stored *)
(* width and height is its position plus half the default size of its      *)
(* variant: 200x100 for text, 128x80 for rectangle, 128x128 for square,    *)
(* circle and diamond.                                                     *)
(***************************************************************************)
VariantDefault(type) ==
    CASE type = "text" -> [width |-> 200, height |-> 100]
      [] type = "rectangle" -> [width |-> 128, height |-> 80]
      [] OTHER -> [width |-> 128, height |-> 128]

CentreUsesVariantDefaults ==
    \A i \in 1..Len(shapes) :
        (shapes[i].type # "line" /\ shapes[i].width = 0 /\ shapes[i].height = 0)
            => getCenterPoint(shapes[i])
                = [x |-> shapes[i].position.x + VariantDefault(shapes[i].type).width \div 2,
                   y |-> shapes[i].position.y + VariantDefault(shapes[i].type).height \div 2]

(* --------------------- drag and resize gestures ------------------------ *)
\* A gesture is pointer-down on a shape or on a resize handle, pointer-moves,
\* pointer-up.  phase tells where the pointer is in it; snap keeps the shape it
\* holds and the shapes and the main log of the moment the gesture began.
\* Draggable is given onDrag only: pointer-down and pointer-up on a shape call
\* nothing in the editor.  handleResizeStart and the resize effect's
\* handleMouseUp set the Shape's own isResizing only.
GestureStart(id, kind) ==
    /\ phase = "free"
    /\ Has(shapes, id)
    /\ kind = "resize" => (selectedShape = id /\ Find(shapes, id).type # "line")
    /\ phase' = kind
    /\ snap' = [id |-> id, shapes |-> shapes, history |-> history,
                historyIndex |-> historyIndex]
    /\ lastOp' = Op("GestureStart", id)
    /\ UNCHANGED <<progVars, persistVars, canvasVars>>

DragMove(position) ==
    /\ phase \in {"drag", "dragging"}
    /\ Drag(snap.id, position, FALSE)
    /\ phase' = "dragging"
    /\ UNCHANGED <<snap, persistVars, canvasVars>>

ResizeGestureMove(w, h) ==
    /\ phase \in {"resize", "resizing"}
    /\ LET new == ClampedSize(Find(shapes, snap.id).type, w, h) IN
            ResizeShape(snap.id, new.width, new.height)
    /\ phase' = "resizing"
    /\ UNCHANGED <<snap, persistVars, canvasVars>>

GestureEnd ==
    /\ phase \in {"dragging", "resizing"}
    /\ phase' = "free"
    /\ lastOp' = Op(IF phase = "dragging" THEN "DragStop" ELSE "ResizeStop", snap.id)
    /\ UNCHANGED <<progVars, snap, persistVars, canvasVars>>

MaxLoggedWhileMoving == 1

GestureSizes == {[w |-> 40, h |-> 70]}

NextGesture ==
    \/ /\ phase = "free"
       /\ \/ SelectShapeEvent
          \/ (historyIndex + 1 < MaxLoggedWhileMoving /\ ShapeColorEvent)
          \/ Undo
       /\ UNCHANGED <<phase, snap, persistVars, canvasVars>>
    \/ \E id \in IdsOf(shapes), kind \in {"drag", "resize"} : GestureStart(id, kind)
    \/ \E position \in DragPositions : DragMove(position)
    \/ \E raw \in GestureSizes : ResizeGestureMove(raw.w, raw.h)
    \/ GestureEnd

SpecGesture == InitShared /\ [][NextGesture]_vars

(***************************************************************************)
(* C32. When a drag or resize gesture that moved the pointer ends, the     *)
(* main log holds exactly one entry more than when the gesture began, the  *)
(* cursor is on it, and undoing it gives the shapes of the moment the      *)
(* gesture began.                                                          *)
(***************************************************************************)
GestureIsOneEntry ==
    lastOp.name \in {"DragStop", "ResizeStop"}
        => /\ Len(history) = Len(snap.history) + 1
           /\ historyIndex = snap.historyIndex + 1
           /\ UndoShapes(history[historyIndex + 1], shapes) = snap.shapes

(***************************************************************************)
(* C33. In every reachable state the drawings are the snapshot the drawing *)
(* cursor is on: drawings = drawingHistory[drawingHistoryIndex] (counted   *)
(* from 0).                                                                *)
(***************************************************************************)
DrawingsAtCursor ==
    /\ drawingHistoryIndex + 1 \in 1..Len(drawingHistory)
    /\ drawings = drawingHistory[drawingHistoryIndex + 1]

(* ------------- strokes on a diagram that came with drawings ------------ *)
\* drawing, drawing-undo and drawing-redo next to clear screen and main undo, on
\* an empty editor or on the shared diagram
NextStrokeUndo ==
    /\ \/ ToolbarStartDrawing
       \/ (drawingHistoryIndex < MaxDrawnWhileDrawing /\ StrokeEvent)
       \/ UndoDrawing
       \/ RedoDrawing
       \/ (historyIndex + 1 < MaxLoggedWhileDrawing /\ ToolbarClearScreen)
       \/ Undo
    /\ UNCHANGED <<phase, snap, persistVars, canvasVars>>

SpecStrokeUndo == InitFile /\ [][NextStrokeUndo]_vars

(***************************************************************************)
(* C34. A drawing-undo issued right after a stroke was completed gives     *)
(* back the drawings of just before the stroke: the list without its last  *)
(* path.                                                                   *)
(***************************************************************************)
UndoAfterStrokeRestores ==
    [][ (lastOp.name = "DrawingComplete" /\ lastOp'.name = "UndoDrawing")
            => drawings' = SubSeq(drawings, 1, Len(drawings) - 1) ]_vars

(* --------------------------- what the canvas shows --------------------- *)
\* the paths drawAllPaths strokes on the canvas
drawAllPaths ==
    LET shown(path) == ~(\E k \in 1..Len(erasedPaths) : erasedPaths[k] = path.id)
    IN  SelectSeq(drawings, shown)

(***************************************************************************)
(* C35. Every path in drawings, a path brought back by drawing-undo after  *)
(* it was erased included, is drawn on the canvas, and an eraser pointer   *)
(* event within tolerance of one of its points removes it.                 *)
(***************************************************************************)
RestoredPathIsOrdinary ==
    /\ [](drawAllPaths = drawings)
    /\ [][ lastOp'.name = "ErasePointer"
            => \A i \in 1..Len(drawings) :
                    InEraserBox(drawings[i], snap'[1])
                        => \A j \in 1..Len(drawings') : drawings'[j] # drawings[i] ]_vars

(* ------------------- both logs next to file loads ---------------------- *)
MaxLoggedWhileBoth == 1
MaxDrawnWhileBoth == 2

\* a file that is not JSON and a file with shapes only
FilesWhileBoth == {1, 7}

\* every event that moves a cursor or replaces a log, on an empty editor
NextCursors ==
    \/ /\ \/ ToolbarStartDrawing
          \/ ToolbarToggleEraser
          \/ /\ drawingHistoryIndex < MaxDrawnWhileBoth
             /\ \/ (Len(drawings) < MaxStrokesWhileDrawing /\ StrokeEvent)
                \/ EraseEvent
          \/ UndoDrawing
          \/ RedoDrawing
          \/ (historyIndex + 1 < MaxLoggedWhileBoth /\ ToolbarClearScreen)
          \/ Undo
          \/ Redo
       /\ UNCHANGED <<phase, snap, persistVars, canvasVars>>
    \/ \E k \in FilesWhileBoth : HandleLoad(k)

SpecCursors == Init /\ [][NextCursors]_vars

(***************************************************************************)
(* C36. Both cursors stay in range: -1 <= historyIndex <= Len(history) - 1 *)
(* and 0 <= drawingHistoryIndex <= Len(drawingHistory) - 1.                *)
(***************************************************************************)
CursorsInRange ==
    /\ historyIndex \in -1..(Len(history) - 1)
    /\ drawingHistoryIndex \in 0..(Len(drawingHistory) - 1)

\* a file with shapes was loaded while the drawing cursor was at the bottom of a
\* log with undone strokes
LoadedAtEndsWitness ==
    /\ lastOp.name = "Load"
    /\ history = <<>> /\ historyIndex = -1
    /\ drawingHistoryIndex = 0
    /\ Len(drawingHistory) > 1
    /\ shapes # <<>>

(* ----------------------- the three tool buttons ------------------------ *)
\* the tool buttons next to canvas clicks, connect gestures, strokes and eraser
\* events on the shared diagram
NextTools ==
    /\ \/ ToolbarStartConnection
       \/ ToolbarStartDrawing
       \/ ToolbarToggleEraser
       \/ CanvasClick
       \/ SelectShapeEvent
       \/ (Len(drawings) < MaxStrokesWhileDrawing /\ StrokeEvent)
       \/ EraseEvent
    /\ UNCHANGED <<phase, snap, persistVars, canvasVars>>

SpecTools == InitShared /\ [][NextTools]_vars

(***************************************************************************)
(* C37. Of connect mode, draw mode and eraser mode no two are active in    *)
(* the same state.                                                         *)
(***************************************************************************)
AtMostOneToolMode ==
    /\ ~(isConnecting /\ isDrawing)
    /\ ~(isConnecting /\ isEraserActive)
    /\ ~(isDrawing /\ isEraserActive)

(* ------------------- undo and redo next to file loads ------------------ *)
NextLoadUndo ==
    \/ NextFile
    \/ Redo /\ UNCHANGED <<phase, snap, persistVars, canvasVars>>

SpecLoadUndo == InitFile /\ [][NextLoadUndo]_vars

(***************************************************************************)
(* C38. After a successful file load the main history is empty and its     *)
(* cursor is -1, and an undo or a redo issued right after the load leaves  *)
(* shapes, connections and drawings as loaded.                             *)
(***************************************************************************)
LoadSucceeded ==
    /\ lastOp.name = "Load"
    /\ JsonParse(ChosenFile(lastOp.id)).ok
    /\ CanReadProperties(JsonParse(ChosenFile(lastOp.id)).value)

LoadEmptiesHistory ==
    /\ [](LoadSucceeded => (history = <<>> /\ historyIndex = -1))
    /\ [][ (LoadSucceeded /\ lastOp'.name \in {"Undo", "Redo"})
                => UNCHANGED <<shapes, connections, drawings, history, historyIndex>> ]_vars

\* an undo that found nothing to undo although the diagram holds a shape added
\* in this session: the shape was added and recorded, saved, and loaded back
UndoAfterLoadWitness ==
    /\ lastOp.name = "Undo"
    /\ lastOp.id = NULL
    /\ history = <<>>
    /\ \E i \in 1..Len(shapes) : shapes[i].id \notin {10, 11, 30}

(***************************************************************************)
(* C39. No connection in the model goes from a shape to that same shape:   *)
(* from # to for every connection the connect gesture created.             *)
(***************************************************************************)
NoSelfConnection ==
    \A i \in 1..Len(connections) : connections[i].from # connections[i].to

\* a connection that was created by the gesture, undone, and put back by redo
ConnectionRedoneWitness ==
    /\ lastOp.name = "Redo"
    /\ lastOp.id # NULL
    /\ history[historyIndex + 1].type = "ADD_CONNECTION"
    /\ Has(connections, history[historyIndex + 1].data.id)

(***************************************************************************)
(* C40. In every reachable state the shapes have pairwise distinct ids,    *)
(* the connections have pairwise distinct ids and the drawing paths have   *)
(* pairwise distinct ids.                                                  *)
(***************************************************************************)
DistinctIds(list) ==
    \A i, j \in 1..Len(list) : list[i].id = list[j].id => i = j

IdsAreUnique ==
    /\ DistinctIds(shapes)
    /\ DistinctIds(connections)
    /\ DistinctIds(drawings)

====
